---------------------------- MODULE Spec2Model ----------------------------
(***************************************************************************)
(* A model of the PC_Marketplace repository (Django application).          *)
(*                                                                         *)
(*   Part 1  ListingImage.save and the primary-image flag                  *)
(*           (listings/models.py), run atomically (Spec) and as two        *)
(*           separate database statements in concurrent requests           *)
(*           (SpecRace).                                                   *)
(*   Part 2  gather_filters / search_listings / search_products            *)
(*           (listings/views.py) over a small catalog (SpecSearch).        *)
(*   Part 3  fuzzy_search (listings/views.py) (SpecFuzzy).                 *)
(*                                                                         *)
(* Text is modelled as a sequence of one-character strings, so that        *)
(* parsing, lower-casing, stripping and similarity scoring are computed    *)
(* and not assumed.                                                        *)
(***************************************************************************)
EXTENDS Integers, Sequences, FiniteSets, TLC

VARIABLES
    images,     \* the ListingImage table: a set of rows [id, listing, is_primary]
    lastOp,     \* the last completed ListingImage operation and the rows its UPDATE cleared
    pc,         \* SpecRace: position of each concurrent save() call
    inst,       \* SpecRace: the in-memory ListingImage instance each call saves
    candidates, \* SpecFuzzy: the rows [id, text] of the queryset given to fuzzy_search
    ranked,     \* SpecFuzzy: the last call of fuzzy_search and what it returned
    store,      \* SpecSearch: the Product and Listing tables the searches read
    response,   \* SpecSearch: the last search request and what the view answered
    market,     \* SpecListing: the catalogue product ids, the Listing table, the next listing id
    reply,      \* SpecListing: the last request to a listing view and its outcome
    catalog,    \* SpecImport: the product rows the import writes
    imported,   \* SpecImport: the last import run, its documents and its log
    chat,       \* SpecChat: the sockets, the Message table and the broadcasts of the relay
    deal        \* SpecDeal: the Purchase and Message tables and the requests in flight

imageVars == <<images, lastOp>>
raceVars == <<pc, inst>>
fuzzyVars == <<candidates, ranked>>
searchVars == <<store, response>>
listingVars == <<market, reply>>
importVars == <<catalog, imported>>
chatVars == <<chat>>
dealVars == <<deal>>
vars == <<images, lastOp, pc, inst, candidates, ranked, store, response, market, reply,
          catalog, imported, chat, deal>>

--------------------------------------------------------------------------
(* Bounds of the model.                                                    *)

MaxImages == 3
MaxListings == 2

ImageIds == 1..MaxImages
ListingIds == 1..MaxListings

--------------------------------------------------------------------------
(* Text: a Python str is a sequence of one-character strings.              *)

\* The characters of the model in code-point order (Python compares and
\* sorts str by code point).
Alphabet ==
    <<" ", "%", "+", "-", ".", "0", "1", "2", "3", "4", "5", "6", "7", "8", "9",
      "A", "B", "C", "F", "G", "L", "M", "O", "P", "T", "U", "Y",
      "a", "b", "c", "d", "e", "f", "g", "l", "m", "n", "o", "p", "r", "s",
      "t", "u", "w", "x", "y">>

UpperChars == <<"A", "B", "C", "F", "G", "L", "M", "O", "P", "T", "U", "Y">>
LowerChars == <<"a", "b", "c", "f", "g", "l", "m", "o", "p", "t", "u", "y">>
DigitChars == <<"0", "1", "2", "3", "4", "5", "6", "7", "8", "9">>

Range(f) == {f[k] : k \in DOMAIN f}
Max2(a, b) == IF a >= b THEN a ELSE b
Min2(a, b) == IF a <= b THEN a ELSE b

CodePoint(c) == CHOOSE k \in DOMAIN Alphabet : Alphabet[k] = c

IsSpace(c) == c = " "
IsDigit(c) == c \in Range(DigitChars)

\* str.lower() on one character.
LowerChar(c) ==
    IF c \in Range(UpperChars)
    THEN LowerChars[CHOOSE k \in DOMAIN UpperChars : UpperChars[k] = c]
    ELSE c

\* str.lower()
Lower(s) == [k \in 1..Len(s) |-> LowerChar(s[k])]

\* str.strip(): leading and trailing whitespace removed.
Strip(s) ==
    LET solid == {k \in 1..Len(s) : ~IsSpace(s[k])} IN
    IF solid = {} THEN <<>>
    ELSE LET lo == CHOOSE k \in solid : \A j \in solid : k <= j
             hi == CHOOSE k \in solid : \A j \in solid : k >= j
         IN  SubSeq(s, lo, hi)

\* str.split(): the maximal runs of non-whitespace characters, as a set
\* (token_set_ratio takes set(s.split())).
TokenSet(s) ==
    {SubSeq(s, lo, hi) : <<lo, hi>> \in
        {<<a, b>> \in (1..Len(s)) \X (1..Len(s)) :
            /\ a <= b
            /\ \A k \in a..b : ~IsSpace(s[k])
            /\ (a = 1 \/ IsSpace(s[a - 1]))
            /\ (b = Len(s) \/ IsSpace(s[b + 1]))}}

\* s < t in Python's str order (lexicographic by code point).
TextLess(s, t) ==
    \E k \in 1..(Len(t)) :
        /\ k <= Len(s) + 1
        /\ \A j \in 1..(k - 1) : s[j] = t[j]
        /\ (k = Len(s) + 1 \/ CodePoint(s[k]) < CodePoint(t[k]))

RECURSIVE JoinSorted(_)
\* " ".join(sorted(tokens))
JoinSorted(tokens) ==
    IF tokens = {} THEN <<>>
    ELSE LET first == CHOOSE t \in tokens : \A u \in tokens \ {t} : TextLess(t, u)
             rest == tokens \ {first}
         IN  IF rest = {} THEN first ELSE first \o <<" ">> \o JoinSorted(rest)

\* Length of the longest common subsequence of s and t.
LCSLen(s, t) ==
    LET f[i \in 0..Len(s), j \in 0..Len(t)] ==
            IF i = 0 \/ j = 0 THEN 0
            ELSE IF s[i] = t[j] THEN f[i - 1, j - 1] + 1
            ELSE Max2(f[i - 1, j], f[i, j - 1])
    IN  f[Len(s), Len(t)]

--------------------------------------------------------------------------
(* Part 3 (pure part): the similarity scorers fuzzy_search hands to        *)
(* rapidfuzz.process.extract, and fuzzy_search itself. A score is kept in  *)
(* thousandths of a point (0 .. 100000) so that it stays an integer.       *)

\* limit=30 in the call of process.extract.
Limit == 30
\* score_cutoff=60, the default of fuzzy_search's parameter.
DefaultCutoff == 60

\* 100 - 100 * dist / lensum (rapidfuzz's normalised Indel similarity).
NormScore(dist, lensum) ==
    IF lensum = 0 THEN 100 * 1000 ELSE (100 * 1000 * (lensum - dist)) \div lensum

\* Every rapidfuzz scorer returns 0 for a score below its score_cutoff.
CutScore(score, cutoff) == IF score >= cutoff * 1000 THEN score ELSE 0

\* Indel distance: insertions and deletions turning s into t.
IndelDist(s, t) == Len(s) + Len(t) - 2 * LCSLen(s, t)

\* fuzz.ratio
Ratio(s, t) == NormScore(IndelDist(s, t), Len(s) + Len(t))

\* len(" ".join(tokens))
JoinedLen(tokens) == Len(JoinSorted(tokens))

\* fuzz.token_set_ratio(s1, s2, score_cutoff=cutoff)
TokenSetRatio(s1, s2, cutoff) ==
    LET A == TokenSet(s1)
        B == TokenSet(s2)
        sect == A \cap B
        ab == JoinSorted(A \ B)
        ba == JoinSorted(B \ A)
        sectLen == JoinedLen(sect)
        gap == IF sectLen # 0 THEN 1 ELSE 0
        sectAbLen == sectLen + gap + Len(ab)
        sectBaLen == sectLen + gap + Len(ba)
        result == NormScore(IndelDist(ab, ba), sectAbLen + sectBaLen)
        sectAbRatio == NormScore(gap + Len(ab), sectLen + sectAbLen)
        sectBaRatio == NormScore(gap + Len(ba), sectLen + sectBaLen)
    IN  IF s1 = <<>> \/ s2 = <<>> THEN 0
        ELSE IF A = {} \/ B = {} THEN 0
        ELSE IF sect # {} /\ (A \ B = {} \/ B \ A = {}) THEN 100 * 1000
        ELSE IF sectLen = 0 THEN CutScore(result, cutoff)
        ELSE CutScore(Max2(result, Max2(sectAbRatio, sectBaRatio)), cutoff)

\* The substrings of the longer text t that partial_ratio aligns the
\* shorter text s with: the prefixes shorter than s, the windows as long as
\* s, and the suffixes no longer than s; a window is skipped when its last
\* character (first, for a suffix) does not occur in s.
PartialWindows(s, t) ==
    LET n == Len(s)
        m == Len(t)
        chars == Range(s)
    IN  {<<1, i>> : i \in {k \in 1..(n - 1) : t[k] \in chars}}
        \cup {<<i + 1, i + n>> : i \in {k \in 0..(m - n - 1) : t[k + n] \in chars}}
        \cup {<<i + 1, m>> : i \in {k \in (m - n)..(m - 1) : t[k + 1] \in chars}}

\* max() of a set of scores, 0 when there is none.
MaxOf(S) == IF S = {} THEN 0 ELSE CHOOSE y \in S : \A z \in S : y >= z

\* _partial_ratio_impl: s is the shorter text.
PartialImpl(s, t) ==
    MaxOf({Ratio(s, SubSeq(t, w[1], w[2])) : w \in PartialWindows(s, t)})

\* fuzz.partial_ratio(s1, s2, score_cutoff=cutoff)
PartialRatio(s1, s2, cutoff) ==
    IF s1 = <<>> /\ s2 = <<>> THEN 100 * 1000
    ELSE IF s1 = <<>> \/ s2 = <<>> THEN 0
    ELSE LET shorter == IF Len(s1) <= Len(s2) THEN s1 ELSE s2
             longer == IF Len(s1) <= Len(s2) THEN s2 ELSE s1
             one == PartialImpl(shorter, longer)
             both == IF Len(s1) = Len(s2)
                     THEN Max2(one, PartialImpl(longer, shorter)) ELSE one
         IN  CutScore(both, cutoff)

\* The scorer of lines 79-82: the larger of the two similarity measures.
Scorer(q, c, cutoff) ==
    Max2(TokenSetRatio(q, c, cutoff), PartialRatio(q, c, cutoff))

\* Line 74: each candidate text is lower-cased and stripped.
Choice(name) == Strip(Lower(name))

\* Line 79: the query is handed to process.extract as it was received.
QueryText(query) == query

\* process.extract called without its limit: every choice is returned.
ExtractUnlimited(scores, limit) ==
    LET n == Len(scores)
        rank == [i \in 1..n |-> Cardinality({j \in 1..n :
                      scores[j] > scores[i] \/ (scores[j] = scores[i] /\ j < i)})]
    IN  [k \in 1..n |-> CHOOSE i \in 1..n : rank[i] = k - 1]

\* process.extract keeps every choice whose score reaches its own
\* score_cutoff, which fuzzy_search does not pass (the worst score, 0, is
\* used), orders them by descending score, earlier choices first among equal
\* scores, and returns the first `limit` of them as indexes into choices.
Extract(scores, limit) ==
    LET n == Len(scores)
        rank == [i \in 1..n |-> Cardinality({j \in 1..n :
                      scores[j] > scores[i] \/ (scores[j] = scores[i] /\ j < i)})]
    IN  [k \in 1..Min2(n, limit) |-> CHOOSE i \in 1..n : rank[i] = k - 1]

\* The rows fetched back and left in their storage order: line 88 dropped.
MatchedRecordsUnsorted(qs, matches) ==
    LET idset == {qs[matches[k]].id : k \in 1..Len(matches)}
    IN  SelectSeq(qs, LAMBDA r : r.id \in idset)

\* Lines 86-88: the matched ids, the rows fetched back with
\* qs.filter(id__in=matched_ids), sorted by their position among the matches.
MatchedRecords(qs, matches) ==
    LET matched_ids == [k \in 1..Len(matches) |-> qs[matches[k]].id]
        idset == Range(matched_ids)
        fetched == SelectSeq(qs, LAMBDA r : r.id \in idset)
        fetchedIds == {fetched[j].id : j \in 1..Len(fetched)}
        \* the sort key of a fetched row is matched_ids.index(p.id); ids are
        \* primary keys, so the sorted rows are the matched ids that were
        \* fetched, in match order
        order == SelectSeq(matched_ids, LAMBDA i : i \in fetchedIds)
    IN  [k \in 1..Len(order) |-> CHOOSE r \in Range(fetched) : r.id = order[k]]

\* The scores process.extract computes. The library calls the scorer with
\* its own score_cutoff keyword in one implementation (handed = TRUE: the
\* lambda's default is overridden by the worst score 0) and without it in
\* the other (handed = FALSE: the lambda's default, score_cutoff, applies).
Scores(qs, query, score_cutoff, handed) ==
    LET byText == [t \in {qs[k].text : k \in 1..Len(qs)} |->
                      Scorer(QueryText(query), Choice(t),
                             IF handed THEN 0 ELSE score_cutoff)]
    IN  [k \in 1..Len(qs) |-> byText[qs[k].text]]

\* A ranker that cuts the unranked collection to the limit as well.
fuzzy_search_always_limits(qs, query, score_cutoff, handed) ==
    IF qs = <<>> THEN <<>>
    ELSE IF query = <<>> THEN SubSeq(qs, 1, Min2(Len(qs), Limit))
    ELSE MatchedRecords(qs, Extract(Scores(qs, query, score_cutoff, handed), Limit))

\* fuzzy_search(qs, query, choice_field, score_cutoff): qs is the sequence
\* of rows [id, text] of the queryset in its storage order, text being the
\* value of choice_field.
fuzzy_search(qs, query, score_cutoff, handed) ==
    IF qs = <<>> THEN <<>>
    ELSE IF query = <<>> THEN qs
    ELSE MatchedRecords(qs, Extract(Scores(qs, query, score_cutoff, handed), Limit))

--------------------------------------------------------------------------
(* Part 2 (pure part): the model fields, request parameters, number         *)
(* parsing, gather_filters, the query the views build from its output,     *)
(* and build_filter_fields. A float or a decimal is kept in thousandths.   *)

\* A concrete column: name, get_internal_type() and verbose_name.
Col(n, t, lab) ==
    [name |-> n, type |-> t, concrete |-> TRUE, is_relation |-> FALSE, label |-> lab]

\* A relation: a foreign key or one-to-one column (concrete), or the reverse
\* side of one (not concrete).
Rel(n, t, c) ==
    [name |-> n, type |-> t, concrete |-> c, is_relation |-> TRUE, label |-> n]

\* Listing._meta.get_fields()
ListingFields ==
    {Rel("images", "ForeignKey", FALSE),
     Col("id", "AutoField", "ID"),
     Rel("owner", "ForeignKey", TRUE),
     Rel("product", "ForeignKey", TRUE),
     Col("title", "CharField", "Title"),
     Col("listing_text", "TextField", "Listing Text"),
     Col("condition", "CharField", "Condition"),
     Col("price", "DecimalField", "Price"),
     Col("stock", "PositiveIntegerField", "Stock"),
     Col("status", "CharField", "status"),
     Col("location_city", "CharField", "location city"),
     Col("location_state", "CharField", "location state"),
     Col("zip_code", "CharField", "zip code"),
     Col("shipping_available", "BooleanField", "shipping available"),
     Col("local_pickup_only", "BooleanField", "local pickup only"),
     Col("shipping_cost", "DecimalField", "shipping cost"),
     Col("upload_time", "DateTimeField", "Upload Time")}

\* Product._meta.get_fields(): the reverse side of Listing.product, the
\* links to the variant tables kept in the model, and the base columns.
ProductFields ==
    {Rel("listing", "ForeignKey", FALSE),
     Rel("cpu", "OneToOneField", FALSE),
     Rel("pccase", "OneToOneField", FALSE),
     Col("id", "AutoField", "ID"),
     Rel("polymorphic_ctype", "ForeignKey", TRUE),
     Col("product_name", "CharField", "Product Name"),
     Col("manufacturer", "CharField", "Manufacturer"),
     Col("part_numbers", "JSONField", "Part Numbers"),
     Col("series", "CharField", "Series"),
     Col("variant", "CharField", "Variant"),
     Col("release_year", "PositiveIntegerField", "Release Year"),
     Col("amazon_sku", "CharField", "amazon sku"),
     Col("newegg_sku", "CharField", "newegg sku"),
     Col("bestbuy_sku", "CharField", "bestbuy sku"),
     Col("walmart_sku", "CharField", "walmart sku"),
     Col("adorama_sku", "CharField", "adorama sku"),
     Col("manufacturer_url", "CharField", "manufacturer url"),
     Col("opendb_id", "UUIDField", "opendb id"),
     Col("last_synced", "DateTimeField", "last synced")}

\* The columns CPU declares itself.
CPUOwnFields ==
    {Rel("product_ptr", "OneToOneField", TRUE),
     Col("microarchitecture", "CharField", "Microarchitecture"),
     Col("core_family", "CharField", "Core Family"),
     Col("socket", "CharField", "Socket"),
     Col("cores_tot", "PositiveIntegerField", "Total Core Count"),
     Col("cores_perf", "PositiveIntegerField", "Performance Core Count"),
     Col("cores_eff", "PositiveIntegerField", "Efficiency Core Count"),
     Col("threads", "PositiveIntegerField", "Thread Count"),
     Col("clocks_perf_base", "FloatField", "Performance Core Clock"),
     Col("clocks_perf_boost", "FloatField", "Performance Core Boost Clock"),
     Col("clocks_eff_base", "FloatField", "clocks eff base"),
     Col("clocks_eff_boost", "FloatField", "clocks eff boost"),
     Col("cache_l1", "CharField", "L1 Cache"),
     Col("cache_l2", "FloatField", "L2 Cache"),
     Col("cache_l3", "FloatField", "L3 Cache"),
     Col("tdp", "PositiveIntegerField", "TDP"),
     Col("intgraph_model", "CharField", "Integrated Graphics"),
     Col("intgraph_base_clock", "FloatField", "intgraph base clock"),
     Col("intgraph_boost_clock", "FloatField", "intgraph boost clock"),
     Col("intgraph_shader_count", "FloatField", "intgraph shader count"),
     Col("ecc_support", "BooleanField", "ECC Support"),
     Col("includes_cooler", "BooleanField", "Includes Cooler"),
     Col("packaging", "CharField", "Packaging"),
     Col("lithography", "CharField", "Lithography"),
     Col("simul_multithread", "BooleanField", "Simultaneous Multithreading"),
     Col("mem_max_support", "FloatField", "mem max support"),
     Col("mem_types", "JSONField", "mem types"),
     Col("mem_channels", "PositiveIntegerField", "mem channels")}

\* PCCase declares no column of its own.
PCCaseOwnFields == {Rel("product_ptr", "OneToOneField", TRUE)}

\* model._meta.get_fields(): a variant has the base columns and its own.
\* Of the seven variants the model keeps CPU (which declares columns) and
\* PCCase (which declares none).
Fields(model) ==
    CASE model = "Listing" -> ListingFields
      [] model = "Product" -> ProductFields
      [] model = "CPU" -> ProductFields \cup CPUOwnFields
      [] model = "PCCase" -> ProductFields \cup PCCaseOwnFields

\* The class attribute FILTER_FIELDS of each model.
FILTER_FIELDS(model) ==
    CASE model = "Listing" -> {"condition", "price"}
      [] model = "Product" -> {"manufacturer", "series", "release_year"}
      [] model = "PCCase" -> {"manufacturer", "series", "release_year"}
      [] model = "CPU" ->
           {"manufacturer", "series", "release_year",
            "microarchitecture", "core_family", "socket", "cores_tot",
            "threads", "clocks_perf_base", "clocks_perf_boost", "tdp",
            "intgraph_model", "ecc_support", "includes_cooler",
            "simul_multithread"}

\* A field loop that keeps allow-listed fields only, as if the test of
\* line 266 stood in gather_filters too.
AllowlistedFields(model) ==
    {f \in Fields(model) :
        f.concrete /\ ~f.is_relation /\ f.name \in FILTER_FIELDS(model)}

\* The fields both gather_filters and build_filter_fields keep: lines 188-189
\* and 264-265.
UsableFields(model) == {f \in Fields(model) : f.concrete /\ ~f.is_relation}

FieldNames(fs) == {f.name : f \in fs}

FieldNamed(model, name) == CHOOSE f \in Fields(model) : f.name = name

\* The model classes registered in the "products" app.
ProductAppModels == {"Product", "CPU", "PCCase"}

\* __name__ of a model class, as text.
ClassName(model) ==
    CASE model = "Product" -> <<"P", "r", "o", "d", "u", "c", "t">>
      [] model = "CPU" -> <<"C", "P", "U">>
      [] model = "PCCase" -> <<"P", "C", "C", "a", "s", "e">>

\* The name by which Product reaches the table of a class:
\* product_model.__name__.lower().
LinkName(model) ==
    CASE model = "Product" -> "product"
      [] model = "CPU" -> "cpu"
      [] model = "PCCase" -> "pccase"

\* issubclass(model, base) among the product classes.
IsSubclass(model, base) == model = base \/ (base = "Product" /\ model \in ProductAppModels)

\* load_product_model: apps.get_model looks the name up lower-cased and
\* raises LookupError for a name that is not registered; a registered class
\* that is not a Product raises ValueError.
load_product_model(product_type_str) ==
    LET found == {m \in ProductAppModels :
                     Lower(ClassName(m)) = Lower(product_type_str)}
    IN  IF found = {}
        THEN [ok |-> FALSE, error |-> "LookupError", model |-> "none"]
        ELSE LET product_model == CHOOSE m \in found : TRUE IN
             IF IsSubclass(product_model, "Product")
             THEN [ok |-> TRUE, error |-> "", model |-> product_model]
             ELSE [ok |-> FALSE, error |-> "ValueError", model |-> product_model]

NumericTypes == {"PositiveIntegerField", "FloatField", "DecimalField"}

\* A stored value: NULL or a value. Text columns hold text, boolean columns
\* booleans, integer columns integers, float and decimal columns thousandths.
Val(x) == [null |-> FALSE, v |-> x]

Null(type) ==
    CASE type \in NumericTypes -> [null |-> TRUE, v |-> 0]
      [] type = "BooleanField" -> [null |-> TRUE, v |-> FALSE]
      [] OTHER -> [null |-> TRUE, v |-> <<>>]

\* The value a row holds in a column. A row keeps the columns the requests
\* of the model can name; its other optional columns are NULL.
FieldVal(row, name) ==
    IF name \in DOMAIN row.vals THEN row.vals[name]
    ELSE Null(FieldNamed(row.model, name).type)

\* int(c) of one digit.
DigitVal(c) == (CHOOSE k \in DOMAIN DigitChars : DigitChars[k] = c) - 1

RECURSIVE DigitsVal(_)
\* The number a run of digits writes.
DigitsVal(s) ==
    IF s = <<>> THEN 0
    ELSE DigitsVal(SubSeq(s, 1, Len(s) - 1)) * 10 + DigitVal(s[Len(s)])

NoNumber == [ok |-> FALSE, val |-> 0]

\* The sign a numeral carries, and the numeral after its sign.
SignOf(t) == IF t # <<>> /\ t[1] = "-" THEN -1 ELSE 1
Unsigned(t) == IF t # <<>> /\ t[1] \in {"+", "-"} THEN Tail(t) ELSE t

\* The integer written by a sign and one or more digits.
IntNumeral(sign, body) ==
    IF body # <<>> /\ \A k \in 1..Len(body) : IsDigit(body[k])
    THEN [ok |-> TRUE, val |-> sign * DigitsVal(body)]
    ELSE NoNumber

IntStripped(t) == IntNumeral(SignOf(t), Unsigned(t))

\* int(s): surrounding whitespace is dropped, one sign is allowed, the rest
\* is one or more digits; anything else raises ValueError (ok = FALSE).
IntParse(s) == IntStripped(Strip(s))

\* The thousandths written by a whole part and a fractional part, the
\* fraction cut to three digits.
Thousandths(whole, frac) ==
    DigitsVal(whole) * 1000 + DigitsVal(SubSeq(frac \o <<"0", "0", "0">>, 1, 3))

\* The number written by digits around the point at position dot
\* (Len(body) + 1 when there is none).
FloatNumeral(sign, body, dot) ==
    IF /\ Len(body) >= 1 /\ (Len(body) >= 2 \/ dot # 1)
       /\ \A k \in 1..Len(body) : IsDigit(body[k]) \/ k = dot
    THEN [ok |-> TRUE,
          val |-> sign * Thousandths(SubSeq(body, 1, dot - 1),
                                     SubSeq(body, dot + 1, Len(body)))]
    ELSE NoNumber

\* The position of the first point of the text, Len(body) + 1 without one.
PointOf(body) ==
    IF \E k \in 1..Len(body) : body[k] = "."
    THEN CHOOSE k \in 1..Len(body) :
            body[k] = "." /\ \A j \in 1..(k - 1) : body[j] # "."
    ELSE Len(body) + 1

FloatUnsigned(sign, body) == FloatNumeral(sign, body, PointOf(body))

FloatStripped(t) == FloatUnsigned(SignOf(t), Unsigned(t))

\* float(s) for a plain numeral: surrounding whitespace is dropped, one sign
\* is allowed, the rest is digits with at most one point and at least one
\* digit. The value is kept in thousandths (the texts of the model carry at
\* most three fractional digits; none carries an exponent, inf or nan).
FloatParse(s) == FloatStripped(Strip(s))

\* decimal.Decimal(s), which DecimalField.to_python applies to a text: the
\* same plain numerals as float(s).
DecimalParse(s) == FloatParse(s)

\* request.GET: a function from the supplied parameter names to the
\* non-empty list of values each was given. A name is the pair of a field
\* name and a suffix ("", "_min", "_max"), for f"{field.name}_min".
ParamKey(name, suffix) == <<name, suffix>>

\* request.GET.get(key): the last value, or None.
Get(GET, key) ==
    IF key \in DOMAIN GET THEN [none |-> FALSE, s |-> GET[key][Len(GET[key])]]
    ELSE [none |-> TRUE, s |-> <<>>]

\* request.GET.getlist(key): every value, or the empty list.
GetList(GET, key) == IF key \in DOMAIN GET THEN GET[key] ELSE <<>>

\* urllib.parse.unquote for the two escapes the model's texts can hold:
\* "%20" and "%2B" are decoded, any other text is left as it is.
RECURSIVE Unquote(_)
Unquote(s) ==
    IF s = <<>> THEN <<>>
    ELSE IF Len(s) >= 3 /\ SubSeq(s, 1, 3) = <<"%", "2", "0">>
         THEN <<" ">> \o Unquote(SubSeq(s, 4, Len(s)))
    ELSE IF Len(s) >= 3 /\ SubSeq(s, 1, 3) = <<"%", "2", "B">>
         THEN <<"+">> \o Unquote(SubSeq(s, 4, Len(s)))
    ELSE <<s[1]>> \o Unquote(Tail(s))

\* A keyword of QuerySet.filter: f"{prefix}{field.name}__{lookup}".
FilterKey(prefix, name, lookup) == [prefix |-> prefix, name |-> name, lookup |-> lookup]

\* The conversion a branch applies: int() in the integer branch (lines 198,
\* 204), float() in the float branch (lines 217, 223).
Convert(kind, s) == IF kind = "int" THEN IntParse(s) ELSE FloatParse(s)

\* One try block of lines 195-206 and 214-225: None and "" raise ValueError,
\* as does a text the conversion rejects; the except clause drops the bound.
Bound(param, kind) ==
    IF param.none \/ param.s = <<>> THEN NoNumber ELSE Convert(kind, param.s)

\* The entries the integer branch (lines 190-206) or the float branch
\* (lines 208-225) adds for the fields fs.
RangeBounds(GET, fs, prefix, kind) ==
    {[key |-> FilterKey(prefix, f.name, "gte"),
      value |-> Bound(Get(GET, ParamKey(f.name, "_min")), kind).val] :
        f \in {g \in fs : Bound(Get(GET, ParamKey(g.name, "_min")), kind).ok}}
    \cup
    {[key |-> FilterKey(prefix, f.name, "lte"),
      value |-> Bound(Get(GET, ParamKey(f.name, "_max")), kind).val] :
        f \in {g \in fs : Bound(Get(GET, ParamKey(g.name, "_max")), kind).ok}}

\* A boolean branch that compares with the lower-case text.
TrueTextLower == <<"t", "r", "u", "e">>

\* The literals of lines 230 and 232.
TrueText == <<"T", "r", "u", "e">>
FalseText == <<"F", "a", "l", "s", "e">>

\* gather_filters(request, model, prefix): the four dicts, each a set of
\* entries [key, value] with one entry per key.
gather_filters(GET, model, prefix) ==
    LET usable == UsableFields(model)
        ints == {f \in usable : f.type = "PositiveIntegerField"}
        floats == {f \in usable : f.type = "FloatField"}
        bools == {f \in usable : f.type = "BooleanField"}
        strs == usable \ (ints \cup floats \cup bools)
    IN  [str |-> {[key |-> FilterKey(prefix, f.name, "in"),
                   value |-> GetList(GET, ParamKey(f.name, ""))] :
                     f \in {g \in strs : GetList(GET, ParamKey(g.name, "")) # <<>>}},
         int |-> RangeBounds(GET, ints, prefix, "int"),
         float |-> RangeBounds(GET, floats, prefix, "float"),
         bool |-> {[key |-> FilterKey(prefix, f.name, "exact"),
                    value |-> Get(GET, ParamKey(f.name, "")).s = TrueText] :
                      f \in {g \in bools :
                               Get(GET, ParamKey(g.name, "")).s \in {TrueText, FalseText}}}]

NoFilterVals == [str |-> {}, int |-> {}, float |-> {}, bool |-> {}]

\* The groups each view unpacks into its filter() call.
ListingSearchGroups == {"str", "int", "bool"}
ProductSearchGroups == {"str", "int", "bool", "float"}

\* The model a keyword's field is looked up on: the queried model itself, or
\* Product, the target of Listing.product, behind the prefix "product__".
KeyModel(base, prefix) == IF prefix = "" THEN base ELSE "Product"

\* The keyword names a column of that model. A column a variant declares is
\* no field of Product: behind "product__" it cannot be resolved.
Resolves(base, key) == key.name \in FieldNames(UsableFields(KeyModel(base, key.prefix)))

\* The value given to an "in" lookup is converted by the column: a decimal
\* column raises ValidationError on a text that is no numeral.
PrepFails(type, value) ==
    type = "DecimalField" /\ \E k \in 1..Len(value) : ~DecimalParse(value[k]).ok

Prepared(type, value) ==
    IF type = "DecimalField" THEN {DecimalParse(value[k]).val : k \in 1..Len(value)}
    ELSE Range(value)

\* The exceptions the keywords of the chosen groups raise while the query is
\* built (filter() raises the one its first failing keyword raises).
QueryErrors(base, filter_vals, groups) ==
    {"FieldError" : g \in {h \in groups :
                             \E c \in filter_vals[h] : ~Resolves(base, c.key)}}
    \cup
    {"ValidationError" : c \in {d \in (IF "str" \in groups THEN filter_vals.str ELSE {}) :
                                  /\ Resolves(base, d.key)
                                  /\ PrepFails(FieldNamed(KeyModel(base, d.key.prefix),
                                                          d.key.name).type, d.value)}}

\* One lookup on a stored value. NULL satisfies none of them.
Holds(val, lookup, type, value) ==
    /\ ~val.null
    /\ CASE lookup = "gte" -> val.v >= value
         [] lookup = "lte" -> val.v <= value
         [] lookup = "exact" -> val.v = value
         [] lookup = "in" -> val.v \in Prepared(type, value)

\* The row a keyword reads: the queried row, or the product row of a listing.
KeyRow(row, product, key) == IF key.prefix = "" THEN row ELSE product

\* The row satisfies every entry of the chosen groups.
RowPasses(row, product, filter_vals, groups) ==
    \A g \in groups : \A c \in filter_vals[g] :
        LET r == KeyRow(row, product, c.key) IN
        Holds(FieldVal(r, c.key.name), c.key.lookup,
              FieldNamed(r.model, c.key.name).type, c.value)

\* dict.get(key) on one of the four dicts.
DictGet(group, key, default) ==
    IF \E c \in group : c.key = key
    THEN [has |-> TRUE, v |-> (CHOOSE c \in group : c.key = key).value]
    ELSE [has |-> FALSE, v |-> default]

\* Min() / Max() over a column: NULLs are skipped, no value gives None.
AggMin(vals) ==
    LET known == {x.v : x \in {y \in vals : ~y.null}} IN
    IF known = {} THEN Null("FloatField")
    ELSE Val(CHOOSE m \in known : \A n \in known : m <= n)

AggMax(vals) ==
    LET known == {x.v : x \in {y \in vals : ~y.null}} IN
    IF known = {} THEN Null("FloatField")
    ELSE Val(CHOOSE m \in known : \A n \in known : m >= n)

\* Lines 276-286 and 294-304: label, min_val, max_val, and user_min /
\* user_max when the dict holds a bound that Python takes as true.
RangeEntry(f, rows, group, prefix) ==
    LET vals == {FieldVal(rows[k], f.name) : k \in 1..Len(rows)}
        lo == DictGet(group, FilterKey(prefix, f.name, "gte"), 0)
        hi == DictGet(group, FilterKey(prefix, f.name, "lte"), 0)
    IN  [label |-> f.label, min_val |-> AggMin(vals), max_val |-> AggMax(vals),
         user_min |-> [has |-> lo.has /\ lo.v # 0, v |-> lo.v],
         user_max |-> [has |-> hi.has /\ hi.v # 0, v |-> hi.v]]

\* build_filter_fields(model, filter_vals, prefix) with rows the rows of
\* model.objects: for each kind a function from field names to entries.
build_filter_fields(model, filter_vals, prefix, rows) ==
    LET shown == {f \in UsableFields(model) : f.name \in FILTER_FIELDS(model)}
        ints == {f \in shown : f.type = "PositiveIntegerField"}
        floats == {f \in shown : f.type = "FloatField"}
        bools == {f \in shown : f.type = "BooleanField"}
        strs == shown \ (ints \cup floats \cup bools)
    IN  [str |-> [n \in FieldNames(strs) |->
                    LET f == FieldNamed(model, n) IN
                    [label |-> f.label,
                     options |-> {FieldVal(rows[k], n) : k \in 1..Len(rows)},
                     user_inputs |-> DictGet(filter_vals.str,
                                             FilterKey(prefix, n, "in"), <<>>)]],
         int |-> [n \in FieldNames(ints) |->
                    RangeEntry(FieldNamed(model, n), rows, filter_vals.int, prefix)],
         float |-> [n \in FieldNames(floats) |->
                    RangeEntry(FieldNamed(model, n), rows, filter_vals.float, prefix)],
         bool |-> [n \in FieldNames(bools) |->
                    [label |-> FieldNamed(model, n).label,
                     user_input |-> DictGet(filter_vals.bool,
                                            FilterKey(prefix, n, "exact"), FALSE)]]]

NoFilterFields ==
    [str |-> [n \in {} |-> 0], int |-> [n \in {} |-> 0],
     float |-> [n \in {} |-> 0], bool |-> [n \in {} |-> 0]]

\* The store the searches read: the product rows by id, and the listing
\* rows newest first (Listing.Meta.ordering).
EmptyStore == [products |-> <<>>, listings |-> <<>>]

ProductOf(st, listing) ==
    CHOOSE p \in Range(st.products) : p.id = listing.product

\* The rows [id, text] fuzzy_search is given, text being choice_field.
ChoiceRows(rows, choice_field) ==
    [k \in 1..Len(rows) |-> [id |-> rows[k].id, text |-> FieldVal(rows[k], choice_field).v]]

IdsOf(rows) == [k \in 1..Len(rows) |-> rows[k].id]

\* request.GET.get("q"), unquoted when it holds a text (lines 118-120).
QueryOf(GET) ==
    LET query == Get(GET, ParamKey("q", "")) IN
    IF query.none \/ query.s = <<>> THEN query
    ELSE [none |-> FALSE, s |-> Unquote(query.s)]

NoResponse ==
    [called |-> FALSE, view |-> "none", p_type |-> <<>>, GET |-> <<>>,
     status |-> "none", raised |-> {}, model |-> "none", query |-> <<>>,
     l_filter_vals |-> NoFilterVals, p_filter_vals |-> NoFilterVals,
     results |-> <<>>,
     l_filter_fields |-> NoFilterFields, p_filter_fields |-> NoFilterFields]

\* search_listings(request, p_type) on the store st.
search_listings(st, GET, p_type, handed) ==
    LET loaded == load_product_model(p_type)
        product_model == loaded.model
        l_filter_vals == gather_filters(GET, "Listing", "")
        p_filter_vals == gather_filters(GET, product_model, "product__")
        query == QueryOf(GET)
        \* lines 122-126: the variant keyword, then the str, int and bool
        \* dicts of both gathers
        raised == {"FieldError" : x \in {y \in {LinkName(product_model)} :
                                            y \notin FieldNames(ProductFields)}}
                  \cup QueryErrors("Listing", l_filter_vals, ListingSearchGroups)
                  \cup QueryErrors("Listing", p_filter_vals, ListingSearchGroups)
        filtered_listings ==
            SelectSeq(st.listings, LAMBDA l :
                /\ ProductOf(st, l).model = product_model
                /\ RowPasses(l, ProductOf(st, l), l_filter_vals, ListingSearchGroups)
                /\ RowPasses(l, ProductOf(st, l), p_filter_vals, ListingSearchGroups))
        matched_listings ==
            fuzzy_search(ChoiceRows(filtered_listings, "title"), query.s,
                         DefaultCutoff, handed)
        called == [NoResponse EXCEPT !.called = TRUE, !.view = "search_listings",
                                     !.p_type = p_type, !.GET = GET]
    IN  IF ~loaded.ok
        THEN [called EXCEPT !.status = loaded.error]
        ELSE IF raised # {}
        THEN [called EXCEPT !.status = "QueryError", !.raised = raised,
                            !.model = product_model, !.query = query.s,
                            !.l_filter_vals = l_filter_vals,
                            !.p_filter_vals = p_filter_vals]
        ELSE [called EXCEPT !.status = "ok", !.model = product_model,
                            !.query = query.s,
                            !.l_filter_vals = l_filter_vals,
                            !.p_filter_vals = p_filter_vals,
                            !.results = IdsOf(matched_listings),
                            !.l_filter_fields =
                                build_filter_fields("Listing", l_filter_vals, "",
                                                    st.listings),
                            !.p_filter_fields =
                                build_filter_fields(product_model, p_filter_vals,
                                    "product__",
                                    SelectSeq(st.products, LAMBDA p :
                                        IsSubclass(p.model, product_model)))]

\* search_products(request, p_type) on the store st.
search_products(st, GET, p_type, handed) ==
    LET loaded == load_product_model(p_type)
        product_model == loaded.model
        filter_vals == gather_filters(GET, product_model, "")
        query == QueryOf(GET)
        table == SelectSeq(st.products, LAMBDA p : IsSubclass(p.model, product_model))
        raised == QueryErrors(product_model, filter_vals, ProductSearchGroups)
        filtered_products ==
            SelectSeq(table, LAMBDA p : RowPasses(p, p, filter_vals, ProductSearchGroups))
        matched_products ==
            fuzzy_search(ChoiceRows(filtered_products, "product_name"), query.s,
                         DefaultCutoff, handed)
        called == [NoResponse EXCEPT !.called = TRUE, !.view = "search_products",
                                     !.p_type = p_type, !.GET = GET]
    IN  IF ~loaded.ok
        THEN [called EXCEPT !.status = loaded.error]
        ELSE IF raised # {}
        THEN [called EXCEPT !.status = "QueryError", !.raised = raised,
                            !.model = product_model, !.query = query.s,
                            !.p_filter_vals = filter_vals]
        ELSE [called EXCEPT !.status = "ok", !.model = product_model,
                            !.query = query.s,
                            !.p_filter_vals = filter_vals,
                            !.results = IdsOf(matched_products),
                            !.p_filter_fields =
                                build_filter_fields(product_model, filter_vals, "",
                                                    table)]

SearchIdle == /\ store = EmptyStore
              /\ response = NoResponse

--------------------------------------------------------------------------
(* Part 4, values: accounts, catalogue ids, posted forms and the rows of   *)
(* the Listing table used by create_listing, edit_listing, delete_listing.  *)

MaxAccounts == 2
MaxCatalog == 2
MaxFormImages == 1

\* request.user: an account, or the anonymous visitor.
Anonymous == 0
Accounts == 1..MaxAccounts
Visitors == Accounts \cup {Anonymous}

CatalogIds == 1..MaxCatalog

Methods == {"GET", "POST"}

\* Listing.STATUS_CHOICES and the default of Listing.status.
STATUS_CHOICES == {"active", "sold", "pending", "inactive"}
DefaultStatus == "active"

\* The posted form data that matter here: the title (a required field of
\* ListingForm, standing for the form's fields) and a posted "status" key.
Titles == {"", "t1", "t2"}
Posts ==
    {[title |-> "", status |-> "active"], [title |-> "t1", status |-> "active"],
     [title |-> "t2", status |-> "sold"], [title |-> "t1", status |-> "pending"],
     [title |-> "t2", status |-> "inactive"]}
NoPost == [title |-> "", status |-> DefaultStatus]

\* ListingForm.Meta.fields: the fields a bound form validates and writes.
\* "status" is commented out of the list.
ListingFormFields ==
    {"title", "listing_text", "condition", "price", "stock", "location_city",
     "location_state", "zip_code", "shipping_available", "local_pickup_only",
     "shipping_cost"}

\* form.is_valid(): the required title is not empty. A posted key that is
\* not a field of the form is not looked at.
FormValid(post) == post.title # ""

\* The posted image formset: nothing, one new image, one stored image
\* changed, or one stored image marked for deletion.
NoImageForm == [kind |-> "none", img |-> 0, is_primary |-> FALSE]
ImageForms ==
    {NoImageForm}
    \cup {[kind |-> "add", img |-> 0, is_primary |-> p] : p \in BOOLEAN}
    \cup {[kind |-> "change", img |-> i, is_primary |-> TRUE] :
              i \in 1..MaxFormImages}
    \cup {[kind |-> "delete", img |-> i, is_primary |-> FALSE] :
              i \in 1..MaxFormImages}

\* A row of the Listing table. writer and created_with are history: who
\* last wrote the form's fields and the product given at creation.
ListingRow(i, o, p, s, t, w, c) ==
    [id |-> i, owner |-> o, product |-> p, status |-> s, title |-> t,
     writer |-> w, created_with |-> c]

EmptyMarket == [products |-> CatalogIds, listings |-> {}, next_id |-> 1]

NoReply == [op |-> "none", user |-> Anonymous, method |-> "GET", target |-> 0,
            status |-> DefaultStatus, outcome |-> "none"]

Reply(op, user, method, target, status, outcome) ==
    [op |-> op, user |-> user, method |-> method, target |-> target,
     status |-> status, outcome |-> outcome]

ListingIdle == /\ market = EmptyMarket
               /\ reply = NoReply

--------------------------------------------------------------------------
(* Part 5, values: the catalogue import of products/utils.py and           *)
(* Product.dict_to_model.                                                   *)

MaxFiles == 2

\* What get_val_from_path returns for a path the document lacks.
None == "None"

\* A text that is not a UUID.
BadUuid == "bad"

\* The JSON documents of a directory, by the values at the mapped paths:
\* metadata.name, opendb_id and metadata.series (standing for the other
\* mapped attributes).
Document(n, u, s) == [product_name |-> n, opendb_id |-> u, series |-> s]

Documents ==
    {Document("n1", "u1", "s1"), Document("n1", "u1", "s2"),
     Document("n1", "u2", "s1"), Document("n2", "u1", "s1"),
     Document("n2", "u2", "s2"), Document(None, "u2", "s1"),
     Document("n2", None, "s1"), Document("n2", BadUuid, "s1")}

\* A row of the Product table joined with its variant's table.
CatalogRow(pk, model, doc) ==
    [pk |-> pk, model |-> model, product_name |-> doc.product_name,
     opendb_id |-> doc.opendb_id, series |-> doc.series]

NoImport == [called |-> FALSE, cls |-> "none", items |-> <<>>, log |-> <<>>,
             raised |-> "none"]

ImportIdle == /\ catalog = {}
              /\ imported = NoImport

--------------------------------------------------------------------------
(* Part 6, values: the chat relay of listings/consumers.py.                *)

MaxUsers == 3
MaxSockets == 2
MaxMessages == 2

\* The ids of the User table and of the Listing table, and an id neither
\* table holds.
Users == 1..MaxUsers
ChatListings == {1, 2}
UnknownId == 9

\* None (JSON null) where an id is expected; no row has this id.
NullId == 0

\* User.username; AnonymousUser.username is the empty text.
Username(u) == IF u = Anonymous THEN "" ELSE "user" \o ToString(u)

\* The room_name the conversation view renders for request.user, the other
\* user and the listing: "<min id>_<max id>_listing_<listing id>".
room_name(user, other, listing) == <<Min2(user, other), Max2(user, other), listing>>

\* The rooms a socket may name in its URL.
Rooms == {room_name(1, 2, 1), room_name(2, 1, 2)}

Channels == 1..MaxSockets

\* An inbound frame {message, receiver_id, listing_id}.
Payload(m, r, l) == [message |-> m, receiver_id |-> r, listing_id |-> l]

Payloads ==
    {Payload("hi", 2, 1), Payload("yo", 1, 1), Payload("hi", UnknownId, 1),
     Payload("hi", 2, UnknownId), Payload("yo", 2, 2), Payload("hi", 1, NullId)}

NoPayload == [message |-> "", receiver_id |-> 0, listing_id |-> NullId, row |-> 0]

\* A consumer instance and its socket: not yet connected ("new"), connected
\* ("open"), inside receive between save_message and group_send ("saved"),
\* closed ("gone"). inbox holds the group events queued for the consumer,
\* got the frames sent down the socket; both number the broadcasts.
NewSocket == [user |-> Anonymous, room |-> <<0, 0, 0>>, state |-> "new",
              pending |-> NoPayload, inbox |-> <<>>, got |-> <<>>]

NoChat == [sock |-> [c \in Channels |-> NewSocket], msgs |-> <<>>,
           sent |-> <<>>, calls |-> 0, failed |-> 0]

ChatIdle == chat = NoChat

--------------------------------------------------------------------------
(* Part 7, values: the purchase views of listings/views.py.                *)

MaxPurchases == 2
MaxDealMessages == 3

\* The Listing table the purchase views read: listing id -> owner id.
ListingOwners == <<1>>

\* The status a new Purchase row gets: create_purchase passes none, so it is
\* the field's default.
PendingStatus == "pending"

\* A row of the Purchase table, by the fields the views read after creation.
PurchaseRow(listing, seller, buyer, bc, sc, status) ==
    [listing |-> listing, seller |-> seller, buyer |-> buyer,
     buyer_confirmation |-> bc, seller_confirmation |-> sc, status |-> status]

\* A row of the Message table as the purchase views write it.
DealMessage(sender, receiver, listing, text) ==
    [sender |-> sender, receiver |-> receiver, listing |-> listing, text |-> text]

NoDealReply == [op |-> "none", user |-> Anonymous, target |-> 0, outcome |-> "none"]

NoDeal == [purchases |-> <<>>, messages |-> <<>>, acted |-> <<>>,
           last |-> NoDealReply, reqs |-> <<>>]

DealIdle == deal = NoDeal

--------------------------------------------------------------------------
(* Part 1: ListingImage                                                    *)

\* A row of the ListingImage table. Only the fields save() reads or writes
\* on account of the primary flag are kept: the primary key, the listing
\* foreign key and is_primary.
ImageRow(i, l, p) == [id |-> i, listing |-> l, is_primary |-> p]

ImageRows == [id : ImageIds, listing : ListingIds, is_primary : BOOLEAN]

NoOp == [op |-> "none", img |-> 0, listing |-> 0, is_primary |-> FALSE, cleared |-> {}]

\* ListingImage.objects.filter(listing=l, is_primary=True): the ids matched.
PrimaryIds(rows, l) == {r.id : r \in {x \in rows : x.listing = l /\ x.is_primary}}

\* A save() that skips the UPDATE: nothing is cleared.
ClearPrimariesSkipped(rows, l, p) == rows

\* An UPDATE that forgets the listing filter: every primary flag is cleared.
ClearPrimariesEverywhere(rows, l, p) ==
    IF p THEN {ImageRow(r.id, r.listing, FALSE) : r \in rows} ELSE rows

\* Lines 98-99 of save(): when the instance is flagged primary, the UPDATE
\* sets is_primary = False on every stored row of the listing that has it.
ClearPrimaries(rows, l, p) ==
    IF p
    THEN {IF r.listing = l /\ r.is_primary
          THEN ImageRow(r.id, r.listing, FALSE) ELSE r : r \in rows}
    ELSE rows

\* Line 100, super().save(): the instance's row is written (inserted, or
\* the row with its primary key replaced).
WriteRow(rows, i, l, p) ==
    {r \in rows : r.id # i} \cup {ImageRow(i, l, p)}

\* The whole of ListingImage.save() for the instance (i, l, p).
SaveRows(rows, i, l, p) == WriteRow(ClearPrimaries(rows, l, p), i, l, p)

UsedIds(rows) == {r.id : r \in rows}

\* The primary key the database gives a new row.
NewId(rows) == CHOOSE i \in ImageIds \ UsedIds(rows) :
                   \A j \in ImageIds \ UsedIds(rows) : i <= j

\* image.save() of a new image of listing l (create_listing, edit_listing).
SaveNewImage(l, p) ==
    /\ UsedIds(images) # ImageIds
    /\ LET i == NewId(images) IN
         /\ images' = SaveRows(images, i, l, p)
         /\ lastOp' = [op |-> "save", img |-> i, listing |-> l, is_primary |-> p,
                       cleared |-> IF p THEN PrimaryIds(images, l) ELSE {}]
    /\ UNCHANGED <<raceVars, fuzzyVars, searchVars, listingVars, importVars, chatVars, dealVars>>

\* image.save() of a stored image (edit_listing: the formset's changed forms).
SaveImage(i, p) ==
    /\ \E r \in images : r.id = i
    /\ LET l == (CHOOSE r \in images : r.id = i).listing IN
         /\ images' = SaveRows(images, i, l, p)
         /\ lastOp' = [op |-> "save", img |-> i, listing |-> l, is_primary |-> p,
                       cleared |-> IF p THEN PrimaryIds(images, l) ELSE {}]
    /\ UNCHANGED <<raceVars, fuzzyVars, searchVars, listingVars, importVars, chatVars, dealVars>>

\* image.delete() (edit_listing: the formset's deleted_objects).
DeleteImage(i) ==
    /\ \E r \in images : r.id = i
    /\ images' = {r \in images : r.id # i}
    /\ lastOp' = [op |-> "delete", img |-> i,
                  listing |-> (CHOOSE r \in images : r.id = i).listing,
                  is_primary |-> FALSE, cleared |-> {}]
    /\ UNCHANGED <<raceVars, fuzzyVars, searchVars, listingVars, importVars, chatVars, dealVars>>

\* listing.delete() (delete_listing): on_delete=CASCADE removes its images.
DeleteListing(l) ==
    /\ \E r \in images : r.listing = l
    /\ images' = {r \in images : r.listing # l}
    /\ lastOp' = [op |-> "delete_listing", img |-> 0, listing |-> l,
                  is_primary |-> FALSE, cleared |-> {}]
    /\ UNCHANGED <<raceVars, fuzzyVars, searchVars, listingVars, importVars, chatVars, dealVars>>

RaceIdle == /\ pc = [p \in {} |-> "idle"]
            /\ inst = [p \in {} |-> NoOp]

NoRank == [called |-> FALSE, query |-> <<>>, score_cutoff |-> 0,
           handed |-> FALSE, result |-> <<>>]

FuzzyIdle == /\ candidates = <<>>
             /\ ranked = NoRank

Init ==
    /\ images = {}
    /\ lastOp = NoOp
    /\ RaceIdle
    /\ FuzzyIdle
    /\ SearchIdle
    /\ ListingIdle
    /\ ImportIdle
    /\ ChatIdle
    /\ DealIdle

Next ==
    \/ \E l \in ListingIds, p \in BOOLEAN : SaveNewImage(l, p)
    \/ \E i \in ImageIds, p \in BOOLEAN : SaveImage(i, p)
    \/ \E i \in ImageIds : DeleteImage(i)
    \/ \E l \in ListingIds : DeleteListing(l)

Spec == Init /\ [][Next]_vars

\* C1: in every state reached by atomic saves and deletions, each listing
\* has at most one image whose is_primary flag is true.
C1_AtMostOnePrimary ==
    \A l \in ListingIds : Cardinality(PrimaryIds(images, l)) <= 1

\* A listing holds several images, exactly one of them primary, right after
\* a save flagged primary whose UPDATE cleared the flag of another image.
C1_Witness ==
    /\ lastOp.op = "save" /\ lastOp.is_primary
    /\ lastOp.cleared \ {lastOp.img} # {}
    /\ Cardinality({r \in images : r.listing = lastOp.listing}) >= 2
    /\ PrimaryIds(images, lastOp.listing) = {lastOp.img}

\* C2: a save of image A flagged primary leaves A primary and every other
\* image of A's listing (a former primary B included) not primary, and it
\* leaves the rows of every other listing as they were.
C2_SetPrimaryClearsOthers ==
    [][(lastOp'.op = "save" /\ lastOp'.is_primary) =>
         LET a == lastOp'.img
             l == lastOp'.listing
         IN  /\ ImageRow(a, l, TRUE) \in images'
             /\ \A r \in images : (r.listing = l /\ r.id # a)
                                     => ImageRow(r.id, l, FALSE) \in images'
             /\ \A r \in images : (r.listing # l /\ r.id # a) => r \in images'
             /\ \A r \in images' : r.id # a => \E q \in images : q.id = r.id]_vars

\* Image A was saved as primary while B of the same listing was primary and
\* an image of another listing was primary too: B is cleared, the other kept.
C2_Witness ==
    /\ lastOp.op = "save" /\ lastOp.is_primary
    /\ \E b \in lastOp.cleared :
          b # lastOp.img /\ ImageRow(b, lastOp.listing, FALSE) \in images
    /\ ImageRow(lastOp.img, lastOp.listing, TRUE) \in images
    /\ \E r \in images : r.listing # lastOp.listing /\ r.is_primary

--------------------------------------------------------------------------
(* Part 1b: two save() calls in concurrent requests. Django runs the       *)
(* UPDATE of lines 98-99 and the write of line 100 as two statements, in   *)
(* autocommit mode; neither save() nor edit_listing opens a transaction.   *)

NumSavers == 2
Savers == 1..NumSavers

\* The stored tables the atomic operations can leave behind.
RaceTables ==
    {t \in SUBSET ImageRows :
        /\ \A r, q \in t : r.id = q.id => r = q
        /\ \A l \in ListingIds : Cardinality(PrimaryIds(t, l)) <= 1}

RaceInit ==
    /\ images \in RaceTables
    /\ lastOp = NoOp
    /\ pc = [p \in Savers |-> "idle"]
    /\ inst = [p \in Savers |-> NoOp]
    /\ FuzzyIdle
    /\ SearchIdle
    /\ ListingIdle
    /\ ImportIdle
    /\ ChatIdle
    /\ DealIdle

\* edit_listing binds a formset form to a stored image and sets is_primary
\* from the request; save() is then called on that instance.
RaceBegin(p, i, flag) ==
    /\ pc[p] = "idle"
    /\ \E r \in images : r.id = i
    /\ inst' = [inst EXCEPT ![p] =
                  [op |-> "save", img |-> i,
                   listing |-> (CHOOSE r \in images : r.id = i).listing,
                   is_primary |-> flag, cleared |-> {}]]
    /\ pc' = [pc EXCEPT ![p] = "clear"]
    /\ UNCHANGED <<imageVars, fuzzyVars, searchVars, listingVars, importVars, chatVars, dealVars>>

\* Lines 98-99: the UPDATE statement.
RaceClear(p) ==
    /\ pc[p] = "clear"
    /\ images' = ClearPrimaries(images, inst[p].listing, inst[p].is_primary)
    /\ pc' = [pc EXCEPT ![p] = "write"]
    /\ UNCHANGED <<lastOp, inst, fuzzyVars, searchVars, listingVars, importVars, chatVars, dealVars>>

\* Line 100: super().save() writes the instance's own row.
RaceWrite(p) ==
    /\ pc[p] = "write"
    /\ images' = WriteRow(images, inst[p].img, inst[p].listing, inst[p].is_primary)
    /\ pc' = [pc EXCEPT ![p] = "done"]
    /\ UNCHANGED <<lastOp, inst, fuzzyVars, searchVars, listingVars, importVars, chatVars, dealVars>>

RaceNext ==
    \/ \E p \in Savers, i \in ImageIds, flag \in BOOLEAN : RaceBegin(p, i, flag)
    \/ \E p \in Savers : RaceClear(p)
    \/ \E p \in Savers : RaceWrite(p)

SpecRace == RaceInit /\ [][RaceNext]_vars

\* C3: when two saves of two different images of one listing, both flagged
\* primary, have run concurrently and both have finished, the listing has at
\* most one primary image, whatever the interleaving of their steps.
C3_ConcurrentSavesKeepOnePrimary ==
    \A p, q \in Savers :
        (/\ p # q
         /\ pc[p] = "done" /\ pc[q] = "done"
         /\ inst[p].is_primary /\ inst[q].is_primary
         /\ inst[p].img # inst[q].img
         /\ inst[p].listing = inst[q].listing)
        => Cardinality(PrimaryIds(images, inst[p].listing)) <= 1

--------------------------------------------------------------------------
(* Part 3: calls of fuzzy_search on a stored collection.                   *)

MaxRows == 32
MaxShift == 1

\* Titles the generated collections cycle through. A title is never blank:
\* the forms require it.
TitlePool ==
    <<(<<"a", "b">>), (<<"b", " ", "a">>), (<<"A", "b", " ">>), (<<"b", "b">>),
      (<<"a">>)>>

cool_guy == <<"c", "o", "o", "l", " ", "g", "u", "y">>
cxol_guy == <<"c", "x", "o", "l", " ", "g", "u", "y">>
COOL_GUY == <<"C", "O", "O", "L", " ", "G", "U", "Y">>

\* n rows in storage order (newest first: descending id), row i holding the
\* pool's title number i + shift.
GenRows(n, shift) ==
    [i \in 1..n |-> [id |-> n - i + 1,
                     text |-> TitlePool[((i + shift) % Len(TitlePool)) + 1]]]

\* Two of the choices of test_api.py, as stored before lower-casing.
ExampleRows ==
    <<[id |-> 2, text |-> cxol_guy],
      [id |-> 1, text |-> <<"C", "o", "o", "l", " ", "g", "u", "y">>]>>

Queries ==
    {<<>>, <<"a">>, <<"A">>, <<"a", "b">>, <<" ", "a">>, <<"b", " ", "a">>,
     cool_guy, COOL_GUY}

FuzzyInit ==
    /\ images = {}
    /\ lastOp = NoOp
    /\ RaceIdle
    /\ candidates \in {GenRows(n, sh) : n \in 0..MaxRows, sh \in 0..MaxShift}
                      \cup {ExampleRows}
    /\ ranked = NoRank
    /\ SearchIdle
    /\ ListingIdle
    /\ ImportIdle
    /\ ChatIdle
    /\ DealIdle

\* One call fuzzy_search(qs, query, choice_field, score_cutoff). A behaviour
\* holds one call: calls share no state.
FuzzySearch(query, score_cutoff, handed) ==
    /\ ~ranked.called
    /\ ranked' = [called |-> TRUE, query |-> query, score_cutoff |-> score_cutoff,
                  handed |-> handed,
                  result |-> fuzzy_search(candidates, query, score_cutoff, handed)]
    /\ UNCHANGED <<candidates, imageVars, raceVars, searchVars, listingVars, importVars, chatVars, dealVars>>

FuzzyNext ==
    \E query \in Queries, score_cutoff \in {DefaultCutoff, 0}, handed \in BOOLEAN :
        FuzzySearch(query, score_cutoff, handed)

SpecFuzzy == FuzzyInit /\ [][FuzzyNext]_vars

\* The score the ranker gives a stored text for a query, no cutoff applied.
RawScore(query, text) == Scorer(QueryText(query), Choice(text), 0)

\* C8: matching is case-insensitive and whitespace-trimmed on both sides:
\* the result for a query equals the result for the lower-cased, stripped
\* query, and the query "COOL GUY" scores "cool guy" and "cxol guy" at 60 or
\* more, "cool guy" at least as high as "cxol guy".
C8_QueryNormalised ==
    (ranked.called /\ ranked.query # <<>>) =>
        /\ ranked.result = fuzzy_search(candidates, Strip(Lower(ranked.query)),
                                        ranked.score_cutoff, ranked.handed)
        /\ (ranked.query = COOL_GUY /\ candidates = ExampleRows) =>
              /\ \A k \in 1..Len(candidates) :
                    RawScore(ranked.query, candidates[k].text) >= DefaultCutoff * 1000
              /\ RawScore(ranked.query, candidates[2].text)
                    >= RawScore(ranked.query, candidates[1].text)

\* C9: with an empty or absent query fuzzy_search returns exactly the input
\* collection: same members, same count, same order, no limit, no cutoff.
C9_EmptyQueryReturnsInput ==
    (ranked.called /\ ranked.query = <<>>) => ranked.result = candidates

\* An empty query on a collection larger than the limit returned all of it.
C9_Witness ==
    /\ ranked.called /\ ranked.query = <<>>
    /\ Len(candidates) > Limit
    /\ ranked.result = candidates

\* C10: with a non-empty query fuzzy_search returns at most 30 records, each
\* a member of the input collection, none of them twice.
C10_AtMostLimitMembersOnce ==
    (ranked.called /\ ranked.query # <<>>) =>
        /\ Len(ranked.result) <= Limit
        /\ \A k \in 1..Len(ranked.result) : ranked.result[k] \in Range(candidates)
        /\ \A j, k \in 1..Len(ranked.result) :
              j # k => ranked.result[j].id # ranked.result[k].id

\* A non-empty query on a collection larger than the limit returned exactly
\* the limit's number of records.
C10_Witness ==
    /\ ranked.called /\ ranked.query # <<>>
    /\ Len(candidates) > Limit
    /\ Len(ranked.result) = Limit


\* The score the scorer of lines 79-82 returned for the k-th returned row,
\* the one the matches were ranked by.
AppliedScore(k) ==
    Scorer(QueryText(ranked.query), Choice(ranked.result[k].text),
           IF ranked.handed THEN 0 ELSE ranked.score_cutoff)

C12_CutoffExcludes ==
    (ranked.called /\ ranked.query # <<>> /\ ranked.score_cutoff = DefaultCutoff) =>
        \A k \in 1..Len(ranked.result) :
            RawScore(ranked.query, ranked.result[k].text) >= DefaultCutoff * 1000

--------------------------------------------------------------------------
(* Part 2: requests to search_listings and search_products.                *)

\* The product rows a store is drawn from, by id: two CPUs with every
\* tracked column set, a CPU whose optional columns are NULL, and a PC case.
ProductPool ==
    <<[id |-> 1, model |-> "CPU", product |-> 0,
       vals |-> [product_name |-> Val(<<"a", " ", "b">>),
                 manufacturer |-> Val(<<"a">>),
                 release_year |-> Val(2020),
                 cores_tot |-> Val(8),
                 clocks_perf_base |-> Val(3500),
                 ecc_support |-> Val(TRUE)]],
      [id |-> 2, model |-> "PCCase", product |-> 0,
       vals |-> [product_name |-> Val(<<"b", " ", "b">>),
                 manufacturer |-> Val(<<"a">>),
                 release_year |-> Val(2020)]],
      [id |-> 3, model |-> "CPU", product |-> 0,
       vals |-> [product_name |-> Val(<<"b", " ", "a">>),
                 manufacturer |-> Val(<<"b">>),
                 release_year |-> Null("PositiveIntegerField"),
                 cores_tot |-> Val(4),
                 clocks_perf_base |-> Val(4200),
                 ecc_support |-> Val(FALSE)]],
      [id |-> 4, model |-> "CPU", product |-> 0,
       vals |-> [product_name |-> Val(<<"a">>),
                 manufacturer |-> Null("CharField"),
                 release_year |-> Val(2020),
                 cores_tot |-> Null("PositiveIntegerField"),
                 clocks_perf_base |-> Null("FloatField"),
                 ecc_support |-> Null("BooleanField")]]>>

\* The listing rows a store is drawn from, newest first.
ListingPool ==
    <<[id |-> 5, model |-> "Listing", product |-> 1,
       vals |-> [title |-> Val(<<"a", " ", "b">>),
                 condition |-> Val(<<"u", "s", "e", "d">>),
                 price |-> Val(12000), stock |-> Val(1),
                 shipping_available |-> Val(TRUE),
                 shipping_cost |-> Val(8000)]],
      [id |-> 4, model |-> "Listing", product |-> 4,
       vals |-> [title |-> Val(<<"a">>),
                 condition |-> Val(<<"n", "e", "w">>),
                 price |-> Val(8000), stock |-> Val(8),
                 shipping_available |-> Val(TRUE),
                 shipping_cost |-> Null("DecimalField")]],
      [id |-> 3, model |-> "Listing", product |-> 3,
       vals |-> [title |-> Val(<<"b", " ", "a">>),
                 condition |-> Val(<<"u", "s", "e", "d">>),
                 price |-> Val(3500), stock |-> Val(0),
                 shipping_available |-> Val(FALSE),
                 shipping_cost |-> Null("DecimalField")]],
      [id |-> 2, model |-> "Listing", product |-> 2,
       vals |-> [title |-> Val(<<"b", " ", "b">>),
                 condition |-> Val(<<"n", "e", "w">>),
                 price |-> Val(8000), stock |-> Val(2),
                 shipping_available |-> Val(TRUE),
                 shipping_cost |-> Val(0)]],
      [id |-> 1, model |-> "Listing", product |-> 1,
       vals |-> [title |-> Val(<<"A", "b", " ">>),
                 condition |-> Val(<<"n", "e", "w">>),
                 price |-> Val(8000), stock |-> Val(8),
                 shipping_available |-> Val(FALSE),
                 shipping_cost |-> Null("DecimalField")]]>>

\* The store holding the first n products of the pool and, when listed, the
\* pool's listings of those products.
StoreOf(n, listed) ==
    [products |-> SubSeq(ProductPool, 1, n),
     listings |-> IF listed
                  THEN SelectSeq(ListingPool, LAMBDA l : l.product <= n)
                  ELSE <<>>]

\* The stores of the model: every prefix of the pool with its listings, and
\* the whole pool with no listing.
Stores ==
    {StoreOf(n, TRUE) : n \in 0..Len(ProductPool)}
        \cup {StoreOf(Len(ProductPool), FALSE)}

\* The texts a request gives as a lower and as an upper bound.
MinTexts == {<<>>, <<"8">>, <<"x">>, <<"3", ".", "5">>, <<"0">>}
MaxTexts == {<<>>, <<"8">>, <<"x">>}

\* The fields whose <field>_min and <field>_max the requests supply.
RangeFieldNames ==
    {"cores_tot", "clocks_perf_base", "release_year", "price", "stock",
     "shipping_cost"}

\* The parameters of a request as pairs <<name, values>>: at most one lower
\* and one upper bound of one field ...
RangeParts ==
    UNION {{lo \cup hi :
              lo \in {{}} \cup {{<<ParamKey(f, "_min"), <<t>>>>} : t \in MinTexts},
              hi \in {{}} \cup {{<<ParamKey(f, "_max"), <<t>>>>} : t \in MaxTexts}} :
           f \in RangeFieldNames}

\* ... and at most one parameter of another kind: a multi-valued text
\* parameter, a boolean parameter, or the query q.
OtherParts ==
    {{}} \cup
    {{p} : p \in
        {<<ParamKey("manufacturer", ""), <<(<<"a">>)>> >>,
         <<ParamKey("manufacturer", ""), <<(<<"a">>), (<<"b">>)>> >>,
         <<ParamKey("manufacturer", ""), <<(<<>>)>> >>,
         <<ParamKey("condition", ""), <<(<<"n", "e", "w">>)>> >>,
         <<ParamKey("price", ""), <<(<<"8">>)>> >>,
         <<ParamKey("price", ""), <<(<<"x">>)>> >>,
         <<ParamKey("socket", ""), <<(<<"a">>)>> >>,
         <<ParamKey("ecc_support", ""), <<TrueText>> >>,
         <<ParamKey("ecc_support", ""), <<FalseText>> >>,
         <<ParamKey("ecc_support", ""), <<(<<"t", "r", "u", "e">>)>> >>,
         <<ParamKey("ecc_support", ""), <<(<<>>)>> >>,
         <<ParamKey("shipping_available", ""), <<TrueText>> >>,
         <<ParamKey("shipping_available", ""), <<FalseText>> >>,
         <<ParamKey("shipping_available", ""), <<(<<"1">>)>> >>,
         <<ParamKey("q", ""), <<(<<"a">>)>> >>,
         <<ParamKey("q", ""), <<(<<"B", "%", "2", "0", "a">>)>> >>}}

\* The range parts another parameter is combined with: one lower bound.
CombinedRanges ==
    {{<<ParamKey(f, "_min"), <<t>>>>} : f \in RangeFieldNames,
                                        t \in {<<"8">>, <<"3", ".", "5">>}}

\* The QueryDict holding the pairs.
Params(pairs) ==
    [k \in {p[1] : p \in pairs} |-> (CHOOSE p \in pairs : p[1] = k)[2]]

Requests ==
    {Params(r \cup o) : <<r, o>> \in
        {<<a, b>> \in RangeParts \X OtherParts :
            a = {} \/ b = {} \/ a \in CombinedRanges}}

\* The variant names a URL carries: two variants, a variant in lower case,
\* the base class, and a name no class has.
PTypes ==
    {ClassName("CPU"), ClassName("PCCase"), Lower(ClassName("CPU")),
     ClassName("Product"), <<"M", "o", "u", "s", "e">>}

SearchInit ==
    /\ images = {}
    /\ lastOp = NoOp
    /\ RaceIdle
    /\ FuzzyIdle
    /\ store \in Stores
    /\ response = NoResponse
    /\ ListingIdle
    /\ ImportIdle
    /\ ChatIdle
    /\ DealIdle

\* One GET request to search_listings. A behaviour holds one request: the
\* views write nothing.
SearchListings(p_type, GET, handed) ==
    /\ ~response.called
    /\ response' = search_listings(store, GET, p_type, handed)
    /\ UNCHANGED <<store, imageVars, raceVars, fuzzyVars, listingVars, importVars, chatVars, dealVars>>

\* One GET request to search_products.
SearchProducts(p_type, GET, handed) ==
    /\ ~response.called
    /\ response' = search_products(store, GET, p_type, handed)
    /\ UNCHANGED <<store, imageVars, raceVars, fuzzyVars, listingVars, importVars, chatVars, dealVars>>

SearchNext ==
    \/ \E p_type \in PTypes, GET \in Requests, handed \in BOOLEAN :
          SearchListings(p_type, GET, handed)
    \/ \E p_type \in PTypes, GET \in Requests, handed \in BOOLEAN :
          SearchProducts(p_type, GET, handed)

SpecSearch == SearchInit /\ [][SearchNext]_vars

\* The gathers a completed request ran: the model, the prefix and the
\* dicts gather_filters returned.
Gathers ==
    IF ~response.called \/ response.model = "none" THEN {}
    ELSE IF response.view = "search_listings"
    THEN {<<"Listing", "", response.l_filter_vals>>,
          <<response.model, "product__", response.p_filter_vals>>}
    ELSE {<<response.model, "", response.p_filter_vals>>}

\* The conversion of a text to the numeric type of a field.
ParseAs(type, s) ==
    CASE type = "PositiveIntegerField" -> IntParse(s)
      [] type = "FloatField" -> FloatParse(s)
      [] type = "DecimalField" -> DecimalParse(s)

\* The values the numeric dicts hold for a field and a lookup.
GatheredBounds(filter_vals, prefix, name, lookup) ==
    {c.value : c \in {d \in filter_vals.int \cup filter_vals.float :
                         d.key = FilterKey(prefix, name, lookup)}}

\* The bound a parameter calls for: none when it is absent, empty or does
\* not parse as the field's type, else its parsed value.
ExpectedBounds(GET, f, suffix) ==
    LET param == Get(GET, ParamKey(f.name, suffix)) IN
    IF param.none \/ param.s = <<>> \/ ~ParseAs(f.type, param.s).ok THEN {}
    ELSE {ParseAs(f.type, param.s).val}

\* Every field of the given types contributes exactly the bounds its
\* parameters call for.
BoundsAsParsed(types) ==
    \A g \in Gathers :
        \A f \in {h \in UsableFields(g[1]) : h.type \in types} :
            /\ GatheredBounds(g[3], g[2], f.name, "gte")
                  = ExpectedBounds(response.GET, f, "_min")
            /\ GatheredBounds(g[3], g[2], f.name, "lte")
                  = ExpectedBounds(response.GET, f, "_max")

\* C4: for every numeric field (integer, float, decimal) and every pair of
\* texts given as <field>_min and <field>_max, the gathered filter holds no
\* bound for a text that is absent, empty or does not parse as the field's
\* type, and holds the parsed value for a text that parses.
C4_NumericBoundsGathered == BoundsAsParsed(NumericTypes)

\* C5: every concrete, non-relational integer or decimal field has its
\* <field>_min and <field>_max recognised as range bounds in a numeric dict
\* whenever they parse, and is never given a string-membership entry.
C5_DecimalFieldsRanged ==
    \A g \in Gathers :
        \A f \in {h \in UsableFields(g[1]) : h.type \in NumericTypes} :
            /\ ExpectedBounds(response.GET, f, "_min") # {}
                  => GatheredBounds(g[3], g[2], f.name, "gte") # {}
            /\ ExpectedBounds(response.GET, f, "_max") # {}
                  => GatheredBounds(g[3], g[2], f.name, "lte") # {}
            /\ \A c \in g[3].str : c.key # FilterKey(g[2], f.name, "in")

\* The stored listing with the given id.
ListingById(id) == CHOOSE l \in Range(store.listings) : l.id = id

\* C6: every listing search_listings returns satisfies every constraint of
\* every dict gathered from the request, the float dict included.
C6_AllGroupsApplied ==
    (response.called /\ response.view = "search_listings" /\ response.status = "ok") =>
        \A k \in 1..Len(response.results) :
            LET l == ListingById(response.results[k]) IN
            /\ RowPasses(l, ProductOf(store, l), response.l_filter_vals,
                         ProductSearchGroups)
            /\ RowPasses(l, ProductOf(store, l), response.p_filter_vals,
                         ProductSearchGroups)

\* C7: on a store holding CPUs and other variants, a listing search for
\* CPU with cores_tot_min=8 completes and returns only listings whose
\* product is a CPU with cores_tot known and at least 8.
C7_CpuCoresSearch ==
    (/\ response.called /\ response.view = "search_listings"
     /\ response.p_type = ClassName("CPU")
     /\ Get(response.GET, ParamKey("cores_tot", "_min")) = [none |-> FALSE, s |-> <<"8">>]
     /\ \E p \in Range(store.products) : p.model = "CPU"
     /\ \E p \in Range(store.products) : p.model # "CPU")
    => /\ response.status = "ok"
       /\ \A k \in 1..Len(response.results) :
            LET p == ProductOf(store, ListingById(response.results[k])) IN
            /\ p.model = "CPU"
            /\ ~FieldVal(p, "cores_tot").null
            /\ FieldVal(p, "cores_tot").v >= 8

\* The concrete product variants among the modelled classes.
ConcreteVariants == ProductAppModels \ {"Product"}

\* A text names a concrete variant when the registry's lookup of line 161
\* (which ignores case) finds that variant under it.
NamesConcreteVariant(p_type) ==
    \E m \in ConcreteVariants : Lower(ClassName(m)) = Lower(p_type)

\* The errors load_product_model raises, before any query is built.
ResolutionErrors == {"LookupError", "ValueError"}

\* C13: for every name that is not the name of a known concrete product
\* variant (an unknown name, and the base type Product) variant resolution
\* fails with an error before any query is run, and the view returns no
\* results.
C13_OnlyConcreteVariantsResolve ==
    (response.called /\ ~NamesConcreteVariant(response.p_type)) =>
        /\ response.status \in ResolutionErrors
        /\ response.results = <<>>

--------------------------------------------------------------------------
(* Part 4: create_listing, edit_listing, delete_listing and the deletion   *)
(* of a catalogue product, on a store of listings owned by accounts.        *)
(* The admin site is outside this part.                                     *)

\* image_formset.is_valid(): a form that names a stored image must name an
\* image of the formset's instance (none for a listing being created).
FormsetValid(rows, l, f) ==
    f.kind \in {"change", "delete"} =>
        \E r \in rows : r.id = f.img /\ r.listing = l

\* The image loop of create_listing and edit_listing and the deletion of
\* the formset's deleted_objects.
SaveFormset(rows, l, f) ==
    CASE f.kind = "add" -> SaveRows(rows, NewId(rows), l, f.is_primary)
      [] f.kind = "change" -> SaveRows(rows, f.img, l, f.is_primary)
      [] f.kind = "delete" -> {r \in rows : r.id # f.img}
      [] OTHER -> rows

\* get_object_or_404 that forgets the owner.
get_object_of_anyone(listings, l_id, user) == {r \in listings : r.id = l_id}

\* get_object_or_404(Listing, id=l_id, owner=request.user): the rows
\* matched; none is Http404.
get_object_or_404(listings, l_id, user) ==
    {r \in listings : r.id = l_id /\ r.owner = user}

\* A product row that may always be deleted.
ProtectedNever(listings, p) == FALSE

\* on_delete=PROTECT of Listing.product: a listing references the product.
Protected(listings, p) == \E r \in listings : r.product = p

\* The foreign-key constraint of Listing.product on insert.
ForeignKeyHolds(products, p_id) == p_id \in products

\* The value form.save() leaves in a column: the posted one if the column
\* is a field of ListingForm, the instance's own otherwise.
Written(field, posted, kept) ==
    IF field \in ListingFormFields THEN posted ELSE kept

\* form.save() of edit_listing on the stored row: the form's fields are
\* written; owner, product and status are not among them.
FormSave(row, user, post) ==
    ListingRow(row.id, row.owner, row.product,
               Written("status", post.status, row.status),
               Written("title", post.title, row.title),
               user, row.created_with)

\* A request that changes nothing in the store.
Refused(r) ==
    /\ reply' = r
    /\ UNCHANGED <<market, images>>

\* The variant a catalogue entry belongs to: every Product row is the parent
\* row of one variant's row.
VariantOf(p) == IF p % 2 = 1 THEN "CPU" ELSE "GPU"

\* The p_type values of the create route's URL.
ProductTypes == {"CPU", "GPU"}

\* The reply to a create_listing request, with the p_type and p_id of its
\* URL.
CreateReply(user, method, p_type, p_id, target, outcome) ==
    [op |-> "create", user |-> user, method |-> method, target |-> target,
     status |-> DefaultStatus, outcome |-> outcome, p_type |-> p_type,
     p_id |-> p_id]

\* create_listing(request, p_type, p_id); p_type is read nowhere in the
\* view.
create_listing(user, method, p_type, p_id, post, f) ==
    /\ market.next_id <= MaxListings
    /\ f.kind = "add" => Cardinality(images) < MaxFormImages
    /\ LET l == market.next_id IN
       IF user = Anonymous
       THEN Refused(CreateReply(user, method, p_type, p_id, 0, "login"))
       ELSE IF method # "POST" \/ ~FormValid(post) \/ ~FormsetValid(images, 0, f)
       THEN Refused(CreateReply(user, method, p_type, p_id, 0, "form"))
       ELSE IF ~ForeignKeyHolds(market.products, p_id)
       THEN Refused(CreateReply(user, method, p_type, p_id, 0, "IntegrityError"))
       ELSE /\ market' = [market EXCEPT
                            !.listings = @ \cup {ListingRow(l, user, p_id,
                                    Written("status", post.status, DefaultStatus),
                                    Written("title", post.title, ""),
                                    user, p_id)},
                            !.next_id = @ + 1]
            /\ images' = SaveFormset(images, l, f)
            /\ reply' = CreateReply(user, method, p_type, p_id, l, "redirect")
    /\ UNCHANGED <<lastOp, raceVars, fuzzyVars, searchVars, importVars, chatVars, dealVars>>

edit_listing(user, method, l_id, post, f) ==
    /\ f.kind = "add" => Cardinality(images) < MaxFormImages
    /\ LET found == get_object_or_404(market.listings, l_id, user) IN
       IF user = Anonymous
       THEN Refused(Reply("edit", user, method, l_id, DefaultStatus, "login"))
       ELSE IF found = {}
       THEN Refused(Reply("edit", user, method, l_id, DefaultStatus, "404"))
       ELSE IF method # "POST" \/ ~FormValid(post) \/ ~FormsetValid(images, l_id, f)
       THEN Refused(Reply("edit", user, method, l_id, DefaultStatus, "form"))
       ELSE /\ market' = [market EXCEPT
                            !.listings = (@ \ found)
                                \cup {FormSave(row, user, post) : row \in found}]
            /\ images' = SaveFormset(images, l_id, f)
            /\ reply' = Reply("edit", user, method, l_id, post.status, "redirect")
    /\ UNCHANGED <<lastOp, raceVars, fuzzyVars, searchVars, importVars, chatVars, dealVars>>

delete_listing(user, method, l_id) ==
    /\ LET found == get_object_or_404(market.listings, l_id, user) IN
       IF user = Anonymous
       THEN Refused(Reply("delete", user, method, l_id, DefaultStatus, "login"))
       ELSE IF method # "POST"
       THEN Refused(Reply("delete", user, method, l_id, DefaultStatus, "405"))
       ELSE IF found = {}
       THEN Refused(Reply("delete", user, method, l_id, DefaultStatus, "404"))
       ELSE /\ market' = [market EXCEPT !.listings = @ \ found]
            /\ images' = {r \in images : r.listing # l_id}
            /\ reply' = Reply("delete", user, method, l_id, DefaultStatus, "redirect")
    /\ UNCHANGED <<lastOp, raceVars, fuzzyVars, searchVars, importVars, chatVars, dealVars>>

\* Product.delete() of a catalogue product, under on_delete=PROTECT.
delete_product(p) ==
    /\ p \in market.products
    /\ IF Protected(market.listings, p)
       THEN Refused(Reply("delete_product", Anonymous, "POST", p, DefaultStatus,
                          "ProtectedError"))
       ELSE /\ market' = [market EXCEPT !.products = @ \ {p}]
            /\ reply' = Reply("delete_product", Anonymous, "POST", p, DefaultStatus,
                              "deleted")
            /\ UNCHANGED images
    /\ UNCHANGED <<lastOp, raceVars, fuzzyVars, searchVars, importVars, chatVars, dealVars>>

ListingInit ==
    /\ images = {}
    /\ lastOp = NoOp
    /\ RaceIdle
    /\ FuzzyIdle
    /\ SearchIdle
    /\ market = EmptyMarket
    /\ reply = NoReply
    /\ ImportIdle
    /\ ChatIdle
    /\ DealIdle

\* The form data a request carries: a GET request carries none.
FormData(method) ==
    IF method = "POST" THEN Posts \X ImageForms ELSE {<<NoPost, NoImageForm>>}

ListingNext ==
    \/ \E user \in Visitors, method \in Methods, p_type \in ProductTypes,
          p \in CatalogIds :
          \E d \in FormData(method) :
              create_listing(user, method, p_type, p, d[1], d[2])
    \/ \E user \in Visitors, method \in Methods, l \in ListingIds :
          \E d \in FormData(method) : edit_listing(user, method, l, d[1], d[2])
    \/ \E user \in Visitors, method \in Methods, l \in ListingIds :
          delete_listing(user, method, l)
    \/ \E p \in CatalogIds : delete_product(p)

SpecListing == ListingInit /\ [][ListingNext]_vars

\* The request of the step just taken is an edit or a deletion asked by an
\* account that does not own the stored listing it names.
NonOwnerRequest ==
    /\ reply'.op \in {"edit", "delete"}
    /\ reply'.user \in Accounts
    /\ \E r \in market.listings : r.id = reply'.target /\ r.owner # reply'.user

\* Every stored listing's form fields were last written by its owner.
OwnerOnlyWrites == \A r \in market.listings : r.writer = r.owner

C15_OwnerSetsAnyStatus ==
    (reply.op = "edit" /\ reply.outcome = "redirect") =>
        \A r \in market.listings : (r.id = reply.target) => (r.status = reply.status)

\* Every listing references a stored product, the one it was created with.
ReferencesKept ==
    \A r \in market.listings :
        r.product \in market.products /\ r.product = r.created_with

\* The step just taken, if an edit, left every listing's product as it was.
EditKeepsReference ==
    (reply'.op = "edit") =>
        \A r \in market.listings : \A q \in market'.listings :
            (q.id = r.id) => (q.product = r.product)

\* The step just taken, if the deletion of a referenced product, was
\* rejected and changed nothing.
ProtectedDeletionRejected ==
    (reply'.op = "delete_product" /\ Protected(market.listings, reply'.target)) =>
        /\ reply'.outcome = "ProtectedError"
        /\ market' = market /\ images' = images

\* C16: in every reachable state each listing references an existing
\* catalogue entry, the one it was created with; an edit never changes the
\* reference; and deleting a catalogue entry that a listing references is
\* rejected and leaves the store unchanged.
C16_CatalogReferenceKept ==
    /\ []ReferencesKept
    /\ [][EditKeepsReference /\ ProtectedDeletionRejected]_vars

\* The deletion of a product that a listing references was rejected, in a
\* store from which an unreferenced product has been deleted.
C16_Witness ==
    /\ reply.op = "delete_product" /\ reply.outcome = "ProtectedError"
    /\ \E r \in market.listings : r.product = reply.target
    /\ reply.target \in market.products
    /\ market.products # CatalogIds

\* The concrete, non-relational fields of a model (lines 188-189).
ConcreteColumns(model) == {f \in Fields(model) : f.concrete /\ ~f.is_relation}

\* The request supplies a parameter of the field in the form gather_filters
\* reads for the field's internal type, with a value it accepts.
Supplied(GET, f) ==
    CASE f.type \in {"PositiveIntegerField", "FloatField"} ->
           \/ ExpectedBounds(GET, f, "_min") # {}
           \/ ExpectedBounds(GET, f, "_max") # {}
      [] f.type = "BooleanField" ->
           Get(GET, ParamKey(f.name, "")).s \in {TrueText, FalseText}
      [] OTHER -> ParamKey(f.name, "") \in DOMAIN GET

\* One of the four dicts holds a constraint on the field.
Constrained(filter_vals, prefix, name) ==
    \/ \E c \in filter_vals.str : c.key.prefix = prefix /\ c.key.name = name
    \/ \E c \in filter_vals.int : c.key.prefix = prefix /\ c.key.name = name
    \/ \E c \in filter_vals.float : c.key.prefix = prefix /\ c.key.name = name
    \/ \E c \in filter_vals.bool : c.key.prefix = prefix /\ c.key.name = name

\* The option dicts a completed request built, each with its model.
Builds ==
    IF response.status # "ok" THEN {}
    ELSE IF response.view = "search_listings"
    THEN {<<"Listing", response.l_filter_fields>>,
          <<response.model, response.p_filter_fields>>}
    ELSE {<<response.model, response.p_filter_fields>>}

\* The field keys of an option dict.
OptionKeys(filter_fields) ==
    DOMAIN filter_fields.str \cup DOMAIN filter_fields.int
        \cup DOMAIN filter_fields.float \cup DOMAIN filter_fields.bool

TableRows(model) ==
    IF model = "Listing" THEN store.listings
    ELSE SelectSeq(store.products, LAMBDA p : IsSubclass(p.model, model))

\* The option dict holds a min/max entry for the field whose min_val and
\* max_val are both None.
HasEmptyRange(filter_fields, name) ==
    \/ /\ name \in DOMAIN filter_fields.int
       /\ filter_fields.int[name].min_val.null
       /\ filter_fields.int[name].max_val.null
    \/ /\ name \in DOMAIN filter_fields.float
       /\ filter_fields.float[name].min_val.null
       /\ filter_fields.float[name].max_val.null

\* C18: build_filter_fields on a model whose table has no rows completes,
\* and for every allow-listed numeric field (the Listing's price is one) it
\* returns a min/max entry {label, min_val: None, max_val: None}.
C18_EmptyTableRanges ==
    \A b \in Builds :
        TableRows(b[1]) = <<>> =>
            \A f \in ConcreteColumns(b[1]) :
                (f.name \in FILTER_FIELDS(b[1]) /\ f.type \in NumericTypes)
                    => HasEmptyRange(b[2], f.name)

\* Each build of a completed request with the gather it was given: the
\* model, the prefix, the filter values and the option dict.
Built ==
    IF response.status # "ok" THEN {}
    ELSE IF response.view = "search_listings"
    THEN {<<"Listing", "", response.l_filter_vals, response.l_filter_fields>>,
          <<response.model, "product__", response.p_filter_vals,
            response.p_filter_fields>>}
    ELSE {<<response.model, "", response.p_filter_vals, response.p_filter_fields>>}

\* An entry's user_min or user_max against the bound gathered for it: the
\* key holds the gathered value, and is absent when none was gathered.
UserBoundKept(user_bound, gathered) ==
    IF gathered = {} THEN ~user_bound.has
    ELSE user_bound.has /\ user_bound.v \in gathered

\* Both bounds of one min/max entry against the gather.
EntryCarriesBounds(entry, filter_vals, prefix, name) ==
    /\ UserBoundKept(entry.user_min, GatheredBounds(filter_vals, prefix, name, "gte"))
    /\ UserBoundKept(entry.user_max, GatheredBounds(filter_vals, prefix, name, "lte"))

\* C19: for every allow-listed numeric field the min/max entry built by
\* build_filter_fields holds as user_min (user_max) the lower (upper) bound
\* that gather_filters produced, whatever its value, zero included, and has
\* no such key when no bound was produced.
C19_UserBoundsCarried ==
    \A b \in Built :
        /\ \A n \in DOMAIN b[4].int : EntryCarriesBounds(b[4].int[n], b[3], b[2], n)
        /\ \A n \in DOMAIN b[4].float : EntryCarriesBounds(b[4].float[n], b[3], b[2], n)

\* The text fields of a model.
StringTypes == {"CharField", "TextField"}

\* The values the "str" dict holds for a field.
GatheredValues(filter_vals, prefix, name) ==
    {c.value : c \in {d \in filter_vals.str : d.key = FilterKey(prefix, name, "in")}}

\* A multi-value parameter carries no value: it is absent, or every value
\* supplied for it is the empty text.
CarriesNothing(values) == \A k \in 1..Len(values) : values[k] = <<>>

\* C20: for every string field gather_filters builds a set-membership
\* constraint over exactly the supplied values when the parameter carries
\* values, and no constraint when it is absent or empty, supplied with an
\* empty value included.
C20_StringMembership ==
    \A g \in Gathers :
        \A f \in {h \in ConcreteColumns(g[1]) : h.type \in StringTypes} :
            LET values == GetList(response.GET, ParamKey(f.name, "")) IN
            GatheredValues(g[3], g[2], f.name) =
                IF CarriesNothing(values) THEN {} ELSE {values}

\* The values the "bool" dict holds for a field.
GatheredBools(filter_vals, prefix, name) ==
    {c.value : c \in {d \in filter_vals.bool :
                         d.key.prefix = prefix /\ d.key.name = name}}

\* The constraint a boolean parameter calls for: true for exactly "True",
\* false for exactly "False", none for anything else.
ExpectedBools(param) ==
    IF param.none THEN {}
    ELSE IF param.s = <<"T", "r", "u", "e">> THEN {TRUE}
    ELSE IF param.s = <<"F", "a", "l", "s", "e">> THEN {FALSE}
    ELSE {}

\* C21: for every boolean field gather_filters produces an equality
\* constraint true for the value exactly "True", false for exactly "False",
\* and no constraint (and no error) for every other value, absent included.
C21_BooleanLiterals ==
    \A g \in Gathers :
        \A f \in {h \in ConcreteColumns(g[1]) : h.type = "BooleanField"} :
            GatheredBools(g[3], g[2], f.name)
                = ExpectedBools(Get(response.GET, ParamKey(f.name, "")))

\* A completed product search of CPUs with ecc_support=True: the constraint
\* is gathered as true and only the CPU with ECC support is returned.
C21_Witness ==
    /\ response.status = "ok" /\ response.view = "search_products"
    /\ response.model = "CPU"
    /\ Get(response.GET, ParamKey("ecc_support", "")).s = <<"T", "r", "u", "e">>
    /\ GatheredBools(response.p_filter_vals, "", "ecc_support") = {TRUE}
    /\ response.results = <<1>>

--------------------------------------------------------------------------
(* Part 5: import_from_opendb and Product.dict_to_model.                   *)

\* The primary key the database gives a new product row.
NewPk(rows) == Cardinality(rows) + 1

\* A lookup that never finds the stored record.
NameMatchesNone(rows, cls, doc) == {}

\* The rows cls.objects.get(product_name=...) matches: rows of the variant
\* with that name; a missing name (None) matches no row.
NameMatches(rows, cls, doc) ==
    {r \in rows : r.model = cls /\ r.product_name = doc.product_name}

\* unique=True of Product.opendb_id, over the rows of every variant: no
\* other row holds the identifier.
Unique(rows, pk, opendb_id) ==
    \A r \in rows : r.pk # pk => r.opendb_id # opendb_id

\* The NOT NULL constraints of product_name and opendb_id.
NotNull(doc) == doc.product_name # None /\ doc.opendb_id # None

\* One call of dict_to_model(cls, doc) on the table rows: the table after
\* it, what the call returned or raised, and what the except clause printed.
\* update_or_create runs in a transaction, so a failed call leaves the rows.
dict_to_model(rows, cls, doc) ==
    LET found == NameMatches(rows, cls, doc)
        pk == IF found = {} THEN NewPk(rows) ELSE (CHOOSE r \in found : TRUE).pk
        written == {r \in rows : r.pk # pk} \cup {CatalogRow(pk, cls, doc)}
    IN  IF Cardinality(found) > 1
        THEN [rows |-> rows, doc |-> doc, result |-> "MultipleObjectsReturned",
              returned |-> "raised", printed |-> {}]
        ELSE IF doc.opendb_id = BadUuid
        THEN [rows |-> rows, doc |-> doc, result |-> "ValidationError",
              returned |-> "raised", printed |-> {}]
        ELSE IF ~NotNull(doc) \/ ~Unique(rows, pk, doc.opendb_id)
        THEN [rows |-> rows, doc |-> doc, result |-> "IntegrityError",
              returned |-> "None", printed |-> {doc}]
        ELSE [rows |-> written, doc |-> doc,
              result |-> IF found = {} THEN "created" ELSE "updated",
              returned |-> "instance", printed |-> {}]

\* The loop of import_from_opendb over the directory's documents: each is
\* given to dict_to_model once, in order; an exception ends the run.
RECURSIVE ImportAll(_, _, _, _)
ImportAll(rows, cls, items, log) ==
    IF items = <<>> THEN [rows |-> rows, log |-> log, raised |-> "none"]
    ELSE LET call == dict_to_model(rows, cls, Head(items))
             entry == [doc |-> call.doc, result |-> call.result,
                       returned |-> call.returned, printed |-> call.printed,
                       before |-> rows, after |-> call.rows]
         IN  IF call.returned = "raised"
             THEN [rows |-> call.rows, log |-> Append(log, entry),
                   raised |-> call.result]
             ELSE ImportAll(call.rows, cls, Tail(items), Append(log, entry))

\* The documents of one directory, in the order os.listdir gives them.
Directories ==
    UNION {[1..n -> Documents] : n \in 0..MaxFiles}

\* import_from_opendb(product_model_name) on a directory of documents.
import_from_opendb(cls, items) ==
    /\ LET run == ImportAll(catalog, cls, items, <<>>) IN
         /\ catalog' = run.rows
         /\ imported' = [called |-> TRUE, cls |-> cls, items |-> items,
                         log |-> run.log, raised |-> run.raised]
    /\ UNCHANGED <<imageVars, raceVars, fuzzyVars, searchVars, listingVars,
                   chatVars, dealVars>>

ImportInit ==
    /\ images = {}
    /\ lastOp = NoOp
    /\ RaceIdle
    /\ FuzzyIdle
    /\ SearchIdle
    /\ ListingIdle
    /\ catalog = {}
    /\ imported = NoImport
    /\ ChatIdle
    /\ DealIdle

ImportNext ==
    \E cls \in ConcreteVariants, items \in Directories : import_from_opendb(cls, items)

SpecImport == ImportInit /\ [][ImportNext]_vars

\* The rows of a variant that carry a name.
Named(rows, cls, name) == {r \in rows : r.model = cls /\ r.product_name = name}

\* A log entry of a call that stored its document: afterwards exactly one
\* row of the variant has the document's name, it holds the document's
\* mapped values, and a row that had the name before is that same row.
StoredOnce(cls, e) ==
    LET now == Named(e.after, cls, e.doc.product_name)
        was == Named(e.before, cls, e.doc.product_name)
    IN  /\ Cardinality(now) = 1
        /\ \A r \in now : r.opendb_id = e.doc.opendb_id /\ r.series = e.doc.series
        /\ was # {} => /\ e.result = "updated"
                        /\ {r.pk : r \in now} = {r.pk : r \in was}
                        /\ Cardinality(e.after) = Cardinality(e.before)
        /\ \A r \in e.before : r \notin was => r \in e.after

\* Importing a document a second time leaves the table as the first
\* import left it.
ImportedTwiceAsOnce(rows, cls, doc) ==
    dict_to_model(dict_to_model(rows, cls, doc).rows, cls, doc).rows
        = dict_to_model(rows, cls, doc).rows

\* C22: the import is idempotent by product name: importing a record twice
\* leaves the store as importing it once does, with exactly one record of
\* the variant under that name holding the record's mapped values, and a
\* record whose name matches a stored record updates that record in place.
C22_ImportIdempotent ==
    /\ \A cls \in ConcreteVariants : \A doc \in Documents :
           ImportedTwiceAsOnce(catalog, cls, doc)
    /\ \A k \in 1..Len(imported.log) :
           imported.log[k].returned = "instance"
               => StoredOnce(imported.cls, imported.log[k])

\* A run that imported two documents of one name with different values:
\* the first call created the record, the second updated it, one row is
\* stored under the name.
C22_Witness ==
    /\ imported.called /\ Len(imported.log) = 2
    /\ imported.log[1].result = "created" /\ imported.log[2].result = "updated"
    /\ imported.log[1].doc.product_name = imported.log[2].doc.product_name
    /\ imported.log[1].doc.series # imported.log[2].doc.series
    /\ Cardinality(Named(catalog, imported.cls, imported.log[2].doc.product_name)) = 1

\* The document of a log entry carries the identifier of a record stored
\* under a different name.
DuplicatesIdentifier(e) ==
    /\ e.doc.opendb_id \notin {None, BadUuid}
    /\ \E r \in e.before :
          r.opendb_id = e.doc.opendb_id /\ r.product_name # e.doc.product_name

\* What the code does with such a record: update_or_create raises
\* IntegrityError, the table is left as it was, the record's values are
\* printed, the record is handed to dict_to_model once only, and the run
\* goes on to the remaining records.
DuplicateIdentifierRefused ==
    \A k \in 1..Len(imported.log) :
        /\ imported.log[k].doc = imported.items[k]
        /\ DuplicatesIdentifier(imported.log[k]) =>
              /\ imported.log[k].result = "IntegrityError"
              /\ imported.log[k].after = imported.log[k].before
              /\ imported.log[k].printed = {imported.log[k].doc}
              /\ k < Len(imported.items) => Len(imported.log) > k

\* The caller of dict_to_model is given the failure: the call raises.
DuplicateIdentifierRaised ==
    \A k \in 1..Len(imported.log) :
        DuplicatesIdentifier(imported.log[k]) => imported.log[k].returned = "raised"

\* C23: when a record's opendb_id duplicates that of a stored record with a
\* different name, its import fails and leaves the store unchanged, the
\* failure is reported to the caller as a failure with the record's field
\* values logged, the record is not retried, and the run goes on to the
\* remaining records.
C23_DuplicateIdentifierReported ==
    DuplicateIdentifierRefused /\ DuplicateIdentifierRaised

--------------------------------------------------------------------------
(* Part 6: the chat relay, ChatConsumer of listings/consumers.py. A        *)
(* consumer handles one event at a time; receive awaits save_message and   *)
(* then group_send, and other consumers run between the two.               *)

\* A save_message that swallows a failed lookup.
save_message_quiet(sender_username, payload) ==
    {[raised |-> "none", rows |-> <<>>]}

\* save_message(sender_username, receiver_id, message_text, listing_id): the
\* possible outcomes, each the exception raised ("none" for a return) and
\* the Message rows created. User.objects.get and Listing.objects.get raise
\* DoesNotExist for an unknown name or id; a false listing_id (None, 0)
\* stores listing None, which the Message table accepts or refuses with
\* IntegrityError according to the column's null option.
save_message(sender_username, payload) ==
    LET senders == {u \in Users : Username(u) = sender_username}
        row(l) == [sender |-> CHOOSE u \in senders : TRUE,
                   receiver |-> payload.receiver_id, listing |-> l,
                   message_text |-> payload.message]
    IN  IF senders = {} \/ payload.receiver_id \notin Users
        THEN {[raised |-> "DoesNotExist", rows |-> <<>>]}
        ELSE IF payload.listing_id = NullId
        THEN {[raised |-> "none", rows |-> <<row(NullId)>>],
              [raised |-> "IntegrityError", rows |-> <<>>]}
        ELSE IF payload.listing_id \notin ChatListings
        THEN {[raised |-> "DoesNotExist", rows |-> <<>>]}
        ELSE {[raised |-> "none", rows |-> <<row(payload.listing_id)>>]}

\* The channels in the group of a room: added by connect, discarded by
\* disconnect. The channel of a consumer that ended with an exception
\* reaches no socket and is left out.
Members(room) ==
    {c \in Channels : chat.sock[c].state \in {"open", "saved"}
                        /\ chat.sock[c].room = room}

\* connect(): the room is taken from the URL, the user from the scope; the
\* channel joins the group and the socket is accepted, whoever the user is.
connect(c, user, room) ==
    /\ chat.sock[c].state = "new"
    /\ chat' = [chat EXCEPT !.sock[c] =
                    [@ EXCEPT !.user = user, !.room = room, !.state = "open"]]
    /\ UNCHANGED <<imageVars, raceVars, fuzzyVars, searchVars, listingVars,
                   importVars, dealVars>>

\* disconnect(): the channel leaves the group and the consumer stops;
\* events still queued for it are never handled.
disconnect(c) ==
    /\ chat.sock[c].state = "open"
    /\ chat' = [chat EXCEPT !.sock[c] =
                    [@ EXCEPT !.state = "gone", !.inbox = <<>>]]
    /\ UNCHANGED <<imageVars, raceVars, fuzzyVars, searchVars, listingVars,
                   importVars, dealVars>>

\* receive(text_data), up to the return of save_message: the row is stored
\* and the handler goes on to the broadcast, or the exception leaves the
\* handler and ends the consumer.
receive(c, payload) ==
    /\ chat.sock[c].state = "open"
    /\ chat.calls < MaxMessages
    /\ \E o \in save_message(Username(chat.sock[c].user), payload) :
          IF o.raised = "none"
          THEN chat' = [chat EXCEPT
                          !.msgs = @ \o o.rows,
                          !.calls = @ + 1,
                          !.sock[c] = [@ EXCEPT !.state = "saved",
                              !.pending = [message |-> payload.message,
                                           receiver_id |-> payload.receiver_id,
                                           listing_id |-> payload.listing_id,
                                           row |-> Len(chat.msgs) + Len(o.rows)]]]
          ELSE chat' = [chat EXCEPT
                          !.calls = @ + 1,
                          !.failed = @ + 1,
                          !.sock[c] = [@ EXCEPT !.state = "gone", !.inbox = <<>>]]
    /\ UNCHANGED <<imageVars, raceVars, fuzzyVars, searchVars, listingVars,
                   importVars, dealVars>>

\* receive(text_data), the group_send: the event {message, sender} is
\* queued for every channel in the group of the consumer's room.
group_send(c) ==
    /\ chat.sock[c].state = "saved"
    /\ LET room == chat.sock[c].room
           to == Members(room)
           k == Len(chat.sent) + 1
           event == [room |-> room, message |-> chat.sock[c].pending.message,
                     sender |-> Username(chat.sock[c].user),
                     row |-> chat.sock[c].pending.row, to |-> to]
       IN chat' = [chat EXCEPT
                     !.sent = Append(@, event),
                     !.sock = [d \in Channels |->
                        LET queued == IF d \in to THEN Append(@[d].inbox, k)
                                                  ELSE @[d].inbox
                        IN IF d = c
                           THEN [@[d] EXCEPT !.state = "open",
                                             !.pending = NoPayload,
                                             !.inbox = queued]
                           ELSE [@[d] EXCEPT !.inbox = queued]]]
    /\ UNCHANGED <<imageVars, raceVars, fuzzyVars, searchVars, listingVars,
                   importVars, dealVars>>

\* chat_message(event): the consumer sends the frame down its socket.
chat_message(c) ==
    /\ chat.sock[c].state = "open"
    /\ chat.sock[c].inbox # <<>>
    /\ chat' = [chat EXCEPT !.sock[c] =
                    [@ EXCEPT !.got = Append(@, Head(chat.sock[c].inbox)),
                              !.inbox = Tail(@)]]
    /\ UNCHANGED <<imageVars, raceVars, fuzzyVars, searchVars, listingVars,
                   importVars, dealVars>>

ChatInit ==
    /\ images = {}
    /\ lastOp = NoOp
    /\ RaceIdle
    /\ FuzzyIdle
    /\ SearchIdle
    /\ ListingIdle
    /\ ImportIdle
    /\ chat = NoChat
    /\ DealIdle

ChatNext ==
    \/ \E c \in Channels, user \in Users \cup {Anonymous}, room \in Rooms :
          connect(c, user, room)
    \/ \E c \in Channels : disconnect(c)
    \/ \E c \in Channels, payload \in Payloads : receive(c, payload)
    \/ \E c \in Channels : group_send(c)
    \/ \E c \in Channels : chat_message(c)

SpecChat == ChatInit /\ [][ChatNext]_vars

\* The handlers that have stored their message and not yet broadcast it.
Saving == {c \in Channels : chat.sock[c].state = "saved"}

\* The broadcasts a socket was sent or has queued.
Reached(c) == {chat.sock[c].inbox[j] : j \in 1..Len(chat.sock[c].inbox)}
                  \cup {chat.sock[c].got[j] : j \in 1..Len(chat.sock[c].got)}

\* Every broadcast carries the text and the sender's name of a row stored
\* before it, every stored row is broadcast or about to be, a failed store
\* broadcasts nothing, and a broadcast is queued for the sockets subscribed
\* to the room when it was sent, and for no other.
PersistedThenBroadcast ==
    /\ Len(chat.msgs) = Len(chat.sent) + Cardinality(Saving)
    /\ chat.calls = Len(chat.sent) + Cardinality(Saving) + chat.failed
    /\ \A k \in 1..Len(chat.sent) :
          /\ chat.sent[k].row \in 1..Len(chat.msgs)
          /\ chat.msgs[chat.sent[k].row].message_text = chat.sent[k].message
          /\ Username(chat.msgs[chat.sent[k].row].sender) = chat.sent[k].sender
          /\ \A j \in 1..Len(chat.sent) : chat.sent[j].row = chat.sent[k].row => j = k
    /\ \A c \in Channels :
          /\ Reached(c) \subseteq {k \in 1..Len(chat.sent) : c \in chat.sent[k].to}
          /\ chat.sock[c].state \in {"open", "saved"} =>
                {k \in 1..Len(chat.sent) : c \in chat.sent[k].to /\ chat.sent[k].room = chat.sock[c].room}
                    \subseteq Reached(c)
          /\ chat.sock[c].state = "gone" => chat.sock[c].inbox = <<>>

\* A step leaves a closed socket as it is and sends it no broadcast.
ClosedGetsNothing ==
    \A c \in Channels :
        chat.sock[c].state = "gone" =>
            /\ chat'.sock[c] = chat.sock[c]
            /\ \A k \in (Len(chat.sent) + 1)..Len(chat'.sent) : c \notin chat'.sent[k].to

\* C24: in the chat relay a message is stored before it is broadcast, the
\* broadcast goes to the sockets subscribed to the room at that moment,
\* nothing is broadcast when storing fails, and a socket that has
\* disconnected receives no later broadcast.
C24_PersistBeforeBroadcast ==
    []PersistedThenBroadcast /\ [][ClosedGetsNothing]_vars

\* One socket left the room, the other then sent a message that was stored,
\* broadcast and delivered to it alone, and its next message failed to
\* store and was not broadcast.
C24_Witness ==
    /\ chat.failed = 1 /\ Len(chat.sent) = 1 /\ Len(chat.msgs) = 1
    /\ \E c, d \in Channels :
          /\ c # d
          /\ chat.sock[c].room = chat.sent[1].room
          /\ chat.sock[c].state = "gone" /\ chat.sock[c].got = <<>>
          /\ chat.sent[1].to = {d}
          /\ chat.sock[d].got = <<1>>
          /\ chat.sock[d].state = "gone"

\* C29: every broadcast belongs to the conversation of its room: the
\* stored sender, receiver and listing are the two participants and the
\* listing of the room identity, and only those two participants are
\* subscribed to the room.
C29_BroadcastInConversation ==
    /\ \A k \in 1..Len(chat.sent) :
          LET m == chat.msgs[chat.sent[k].row]
              room == chat.sent[k].room
          IN  /\ {m.sender, m.receiver} = {room[1], room[2]}
              /\ m.listing = room[3]
    /\ \A c \in Channels :
          chat.sock[c].state \in {"open", "saved"} =>
              chat.sock[c].user \in {chat.sock[c].room[1], chat.sock[c].room[2]}

--------------------------------------------------------------------------
(* Part 7: the purchase views of listings/views.py. agreed_price,          *)
(* meetup_location and meetup_time are written once by create_purchase and *)
(* read by no view; the rows leave them out.                               *)

DealReply(op, user, target, outcome) ==
    [op |-> op, user |-> user, target |-> target, outcome |-> outcome]

\* The posted proposal forms: complete; without meetup_date (None + ' '
\* raises TypeError); with a date parse_datetime cannot read (it returns
\* None, and meetup_time.strftime raises after the Purchase row is made,
\* unless the insert refused the null meetup_time).
ProposalForms == {"ok", "nodate", "baddate"}

\* A request that changes nothing and ends with the given outcome.
DealRefused(op, user, target, outcome) ==
    deal' = [deal EXCEPT !.last = DealReply(op, user, target, outcome)]

\* A party test that lets every user through.
IsPartyAnyone(p, user) == TRUE

\* request.user in [purchase.buyer, purchase.seller].
IsParty(p, user) == user \in {p.buyer, p.seller}

\* The other party of a purchase, as confirm_purchase and cancel_purchase
\* compute it.
other_user(p, user) == IF user = p.buyer THEN p.seller ELSE p.buyer

\* create_purchase(request, listing_id, user_id).
create_purchase(user, method, listing_id, user_id, form) ==
    /\ Len(deal.purchases) < MaxPurchases
    /\ Len(deal.messages) < MaxDealMessages
    /\ IF user = Anonymous
       THEN DealRefused("create", user, listing_id, "login")
       ELSE IF listing_id \notin DOMAIN ListingOwners \/ user_id \notin Users
       THEN DealRefused("create", user, listing_id, "404")
       ELSE IF method # "POST"
       THEN DealRefused("create", user, listing_id, "form")
       ELSE IF form = "nodate"
       THEN DealRefused("create", user, listing_id, "TypeError")
       ELSE
         LET owner == ListingOwners[listing_id]
             seller == IF user = owner THEN user ELSE owner
             buyer == IF user = owner THEN user_id ELSE user
             row == PurchaseRow(listing_id, seller, buyer, user = buyer,
                                user = seller, PendingStatus)
             made == [deal EXCEPT !.purchases = Append(@, row),
                                  !.acted = Append(@, {user})]
         IN IF form = "ok"
            THEN deal' = [made EXCEPT
                    !.messages = Append(@, DealMessage(user, user_id, listing_id, "proposal")),
                    !.last = DealReply("create", user, Len(deal.purchases) + 1, "redirect")]
            ELSE \/ DealRefused("create", user, listing_id, "IntegrityError")
                 \/ deal' = [made EXCEPT !.last =
                        DealReply("create", user, Len(deal.purchases) + 1, "AttributeError")]
    /\ UNCHANGED <<imageVars, raceVars, fuzzyVars, searchVars, listingVars,
                   importVars, chatVars>>

\* A confirmation that completes the purchase whatever the flags.
ConfirmedAnyway(p, user) == [p EXCEPT !.status = "complete"]

\* The purchase after the two save() calls of confirm_purchase by a party.
Confirmed(p, user) ==
    LET flagged == IF user = p.buyer
                   THEN [p EXCEPT !.buyer_confirmation = TRUE]
                   ELSE [p EXCEPT !.seller_confirmation = TRUE]
    IN  IF flagged.buyer_confirmation /\ flagged.seller_confirmation
        THEN [flagged EXCEPT !.status = "complete"]
        ELSE flagged

\* confirm_purchase(request, purchase_id), with any method.
confirm_purchase(user, purchase_id) ==
    /\ Len(deal.messages) < MaxDealMessages
    /\ IF user = Anonymous
       THEN DealRefused("confirm", user, purchase_id, "login")
       ELSE IF purchase_id \notin 1..Len(deal.purchases)
       THEN DealRefused("confirm", user, purchase_id, "404")
       ELSE LET p == deal.purchases[purchase_id] IN
            IF ~IsParty(p, user)
            THEN DealRefused("confirm", user, purchase_id, "homepage")
            ELSE deal' = [deal EXCEPT
                    !.purchases[purchase_id] = Confirmed(p, user),
                    !.acted[purchase_id] = @ \cup {user},
                    !.messages = Append(@, DealMessage(user, other_user(p, user),
                                                       p.listing, "confirmed")),
                    !.last = DealReply("confirm", user, purchase_id, "redirect")]
    /\ UNCHANGED <<imageVars, raceVars, fuzzyVars, searchVars, listingVars,
                   importVars, chatVars>>

\* cancel_purchase(request, purchase_id), with any method.
cancel_purchase(user, purchase_id) ==
    /\ Len(deal.messages) < MaxDealMessages
    /\ IF user = Anonymous
       THEN DealRefused("cancel", user, purchase_id, "login")
       ELSE IF purchase_id \notin 1..Len(deal.purchases)
       THEN DealRefused("cancel", user, purchase_id, "404")
       ELSE LET p == deal.purchases[purchase_id] IN
            IF ~IsParty(p, user)
            THEN DealRefused("cancel", user, purchase_id, "homepage")
            ELSE deal' = [deal EXCEPT
                    !.purchases[purchase_id] = [p EXCEPT !.status = "cancelled"],
                    !.messages = Append(@, DealMessage(user, other_user(p, user),
                                                       p.listing, "cancelled")),
                    !.last = DealReply("cancel", user, purchase_id, "redirect")]
    /\ UNCHANGED <<imageVars, raceVars, fuzzyVars, searchVars, listingVars,
                   importVars, chatVars>>

DealInit ==
    /\ images = {}
    /\ lastOp = NoOp
    /\ RaceIdle
    /\ FuzzyIdle
    /\ SearchIdle
    /\ ListingIdle
    /\ ImportIdle
    /\ ChatIdle
    /\ deal = NoDeal

DealNext ==
    \/ \E user \in Users \cup {Anonymous}, method \in Methods,
          listing_id \in DOMAIN ListingOwners \cup {UnknownId},
          user_id \in Users \cup {UnknownId}, form \in ProposalForms :
          /\ method = "GET" => form = "ok"
          /\ create_purchase(user, method, listing_id, user_id, form)
    \/ \E user \in Users \cup {Anonymous}, purchase_id \in 1..(MaxPurchases + 1) :
          confirm_purchase(user, purchase_id)
    \/ \E user \in Users \cup {Anonymous}, purchase_id \in 1..(MaxPurchases + 1) :
          cancel_purchase(user, purchase_id)

SpecDeal == DealInit /\ [][DealNext]_vars

\* A complete purchase has both confirmations.
CompleteIsConfirmed ==
    \A i \in 1..Len(deal.purchases) :
        deal.purchases[i].status = "complete" =>
            deal.purchases[i].buyer_confirmation /\ deal.purchases[i].seller_confirmation

\* A step takes no confirmation back.
ConfirmationsKept ==
    \A i \in 1..Len(deal.purchases) :
        /\ deal.purchases[i].buyer_confirmation => deal'.purchases[i].buyer_confirmation
        /\ deal.purchases[i].seller_confirmation => deal'.purchases[i].seller_confirmation

\* C25: after any sequence of create_purchase, confirm_purchase and
\* cancel_purchase calls a complete purchase has both confirmation flags
\* true, and no flag goes from true back to false.
C25_CompleteHasBothFlags ==
    []CompleteIsConfirmed /\ [][ConfirmationsKept]_vars

\* A purchase proposed by one party and completed by the other's
\* confirmation.
C25_Witness ==
    /\ deal.last.op = "confirm" /\ deal.last.outcome = "redirect"
    /\ deal.last.target \in 1..Len(deal.purchases)
    /\ deal.purchases[deal.last.target].status = "complete"
    /\ deal.purchases[deal.last.target].buyer_confirmation
    /\ deal.purchases[deal.last.target].seller_confirmation
    /\ deal.purchases[deal.last.target].buyer # deal.purchases[deal.last.target].seller

\* A step leaves a cancelled or complete purchase in its status.
TerminalKept ==
    \A i \in 1..Len(deal.purchases) :
        deal.purchases[i].status \in {"cancelled", "complete"} =>
            deal'.purchases[i].status = deal.purchases[i].status

\* C27: 'cancelled' and 'complete' are terminal: no later confirm_purchase
\* makes a cancelled purchase complete and no later cancel_purchase makes a
\* complete purchase cancelled.
C27_TerminalStatuses == [][TerminalKept]_vars

\* The request that made a step was a confirm or cancel of an existing
\* purchase by someone who is neither its buyer nor its seller.
ByOutsider ==
    /\ deal'.last.op \in {"confirm", "cancel"}
    /\ deal'.last.target \in 1..Len(deal.purchases)
    /\ deal'.last.user # deal.purchases[deal'.last.target].buyer
    /\ deal'.last.user # deal.purchases[deal'.last.target].seller

OutsiderChangesNothing ==
    ByOutsider => /\ deal'.purchases = deal.purchases
                  /\ deal'.messages = deal.messages

\* Both parties of a complete purchase between two users have created or
\* confirmed it.
CompleteByBoth ==
    \A i \in 1..Len(deal.purchases) :
        (/\ deal.purchases[i].status = "complete"
         /\ deal.purchases[i].buyer # deal.purchases[i].seller)
            => {deal.purchases[i].buyer, deal.purchases[i].seller} \subseteq deal.acted[i]

\* C28: confirm_purchase and cancel_purchase by a user who is neither buyer
\* nor seller change no flag and no status and create no message, and a
\* purchase between two distinct parties is complete only after both have
\* acted on it.
C28_OutsidersAndBothParties ==
    []CompleteByBoth /\ [][OutsiderChangesNothing]_vars

\* A purchase between two users is complete, and a third user's
\* confirmation of it has just been turned away.
C28_Witness ==
    /\ deal.last.op = "confirm" /\ deal.last.outcome = "homepage"
    /\ deal.last.user \in Users
    /\ deal.last.target \in 1..Len(deal.purchases)
    /\ deal.purchases[deal.last.target].status = "complete"
    /\ deal.purchases[deal.last.target].buyer # deal.purchases[deal.last.target].seller
    /\ Len(deal.messages) = 2

--------------------------------------------------------------------------
(* Part 7b: confirm_purchase by the buyer and by the seller of purchase 1  *)
(* in two concurrent requests. The view runs in no transaction and takes   *)
(* no row lock: each request reads the row into its own Purchase instance, *)
(* and every save() writes all the columns of that instance.               *)

\* The purchases create_purchase leaves between two users: proposed by the
\* buyer or by the seller, who owns the listing.
Proposed ==
    {p \in {PurchaseRow(l, ListingOwners[l], b, by = "buyer", by = "seller",
                         PendingStatus) :
                l \in DOMAIN ListingOwners, b \in Users, by \in {"buyer", "seller"}} :
        p.buyer # p.seller}

Request(at, copy) == [at |-> at, copy |-> copy]

\* get_object_or_404(Purchase, id=purchase_id), the party test and the
\* assignment of the requester's flag on the instance.
confirm_get(u) ==
    /\ u \in DOMAIN deal.reqs
    /\ deal.reqs[u].at = "get"
    /\ LET p == deal.purchases[1]
           held == IF u = p.buyer THEN [p EXCEPT !.buyer_confirmation = TRUE]
                                  ELSE [p EXCEPT !.seller_confirmation = TRUE]
       IN deal' = [deal EXCEPT !.reqs[u] = Request("save", held)]
    /\ UNCHANGED <<imageVars, raceVars, fuzzyVars, searchVars, listingVars,
                   importVars, chatVars>>

\* The first purchase.save(), and the test of the instance's two flags.
confirm_save(u) ==
    /\ u \in DOMAIN deal.reqs
    /\ deal.reqs[u].at = "save"
    /\ LET held == deal.reqs[u].copy IN
         deal' = [deal EXCEPT
            !.purchases[1] = held,
            !.acted[1] = @ \cup {u},
            !.reqs[u].at = IF held.buyer_confirmation /\ held.seller_confirmation
                           THEN "complete" ELSE "message"]
    /\ UNCHANGED <<imageVars, raceVars, fuzzyVars, searchVars, listingVars,
                   importVars, chatVars>>

\* purchase.status = 'complete' and the second purchase.save().
confirm_complete(u) ==
    /\ u \in DOMAIN deal.reqs
    /\ deal.reqs[u].at = "complete"
    /\ LET held == [deal.reqs[u].copy EXCEPT !.status = "complete"] IN
         deal' = [deal EXCEPT !.purchases[1] = held,
                              !.reqs[u] = Request("message", held)]
    /\ UNCHANGED <<imageVars, raceVars, fuzzyVars, searchVars, listingVars,
                   importVars, chatVars>>

\* Message.objects.create(...) and the redirect.
confirm_message(u) ==
    /\ u \in DOMAIN deal.reqs
    /\ deal.reqs[u].at = "message"
    /\ LET held == deal.reqs[u].copy IN
         deal' = [deal EXCEPT
            !.messages = Append(@, DealMessage(u, other_user(held, u),
                                               held.listing, "confirmed")),
            !.last = DealReply("confirm", u, 1, "redirect"),
            !.reqs[u].at = "done"]
    /\ UNCHANGED <<imageVars, raceVars, fuzzyVars, searchVars, listingVars,
                   importVars, chatVars>>

DealRaceInit ==
    /\ images = {}
    /\ lastOp = NoOp
    /\ RaceIdle
    /\ FuzzyIdle
    /\ SearchIdle
    /\ ListingIdle
    /\ ImportIdle
    /\ ChatIdle
    /\ \E p \in Proposed :
          LET creator == IF p.buyer_confirmation THEN p.buyer ELSE p.seller IN
          deal = [purchases |-> <<p>>,
                  messages |-> <<DealMessage(creator, other_user(p, creator),
                                             p.listing, "proposal")>>,
                  acted |-> <<{creator}>>,
                  last |-> DealReply("create", creator, 1, "redirect"),
                  reqs |-> [u \in {p.buyer, p.seller} |-> Request("get", p)]]

DealRaceNext ==
    \/ \E u \in Users : confirm_get(u)
    \/ \E u \in Users : confirm_save(u)
    \/ \E u \in Users : confirm_complete(u)
    \/ \E u \in Users : confirm_message(u)

SpecDealRace == DealRaceInit /\ [][DealRaceNext]_vars

\* Both requests have returned.
BothConfirmed == \A u \in DOMAIN deal.reqs : deal.reqs[u].at = "done"

\* C26: when buyer and seller confirm the same purchase in concurrent
\* requests, then for every interleaving the stored purchase has both
\* confirmation flags true and status 'complete' once both requests have
\* finished.
C26_ConcurrentConfirmsComplete ==
    (deal.reqs # <<>> /\ BothConfirmed) =>
        /\ deal.purchases[1].buyer_confirmation
        /\ deal.purchases[1].seller_confirmation
        /\ deal.purchases[1].status = "complete"

\* The step just taken answered a create_listing request.
CreateRequest == reply'.op = "create" /\ reply' # reply

\* The listing a create_listing request added is owned by the requester
\* and references the entry p_id, which exists and is of the variant
\* p_type.
CreatedAsAsked ==
    \A r \in market'.listings \ market.listings :
        /\ r.owner = reply'.user
        /\ r.product = reply'.p_id
        /\ r.product \in market.products
        /\ VariantOf(r.product) = reply'.p_type

\* A request whose p_id names no entry, or an entry of another variant,
\* adds no listing.
MismatchCreatesNothing ==
    (reply'.p_id \notin market.products \/ VariantOf(reply'.p_id) # reply'.p_type)
        => market'.listings = market.listings

\* C30: every listing created through create_listing(p_type, p_id) is
\* owned by the requesting user and references the catalogue entry p_id,
\* which exists and is of the variant named by p_type; a request whose
\* p_id names no entry, or an entry of another variant, creates no listing.
C30_CreatedForNamedVariant ==
    [][CreateRequest => (CreatedAsAsked /\ MismatchCreatesNothing)]_vars

==========================================================================
